---- MODULE Spec2Model ----
(***************************************************************************)
(* Model of the pokedex repository's cache-aside lookups and retry         *)
(* utility: exponential-backoff.util (shouldRetry, calculateDelay,         *)
(* withExponentialBackoff), CacheWrapperService (get, set),                *)
(* PokemonRepository.getPokemonSpecies, TranslationRepository.translate,   *)
(* PokemonService (determineTranslationType, getPokemon,                   *)
(* getTranslatedPokemon) and the HTTP routes of PokemonController with     *)
(* their rate limiter and request validation.                              *)
(*                                                                         *)
(* Every call is a process p whose state is the record proc[p].  An action *)
(* is one resumption of an async function: the synchronous code that runs  *)
(* from one await to the next.  The operators below compute that code on   *)
(* the record; they are written callee first, so a callee's continuation   *)
(* (what its caller does with the result) is defined before it.            *)
(*                                                                         *)
(* The record also carries history fields (calls, nFailed, thrown, delays, *)
(* slept, reads, writes, last, ...): what the call has done and what its   *)
(* environment (the operation, the upstream, the store) answered.          *)
(*                                                                         *)
(* Specifications: SpecPure (shouldRetry and calculateDelay called         *)
(* directly), SpecRetry (one withExponentialBackoff call with any config   *)
(* and any outcomes of the operation), SpecCache (CacheWrapperService.get  *)
(* and set called one after another on a store that may fail), Spec        *)
(* (getPokemonSpecies lookups one after another, with a store and an       *)
(* upstream that may fail), SpecTranslate (the same for translate),        *)
(* SpecLookups (both kinds of lookup on one store; FairLookups adds that   *)
(* every awaited operation settles), SpecConcurrent (two callers whose     *)
(* lookups interleave), SpecInterleaved (two callers' direct calls of      *)
(* withExponentialBackoff and of the cache wrapper interleaving),          *)
(* SpecTranslations (getTranslatedPokemon calls and translate calls),      *)
(* SpecService (PokemonService calls,                                      *)
(* its two repositories answering in any way), SpecHttp (the requests of   *)
(* one client through rate limiter, validation and controller; throttler   *)
(* is the limiter's count of each route's requests in the window).         *)
(***************************************************************************)
EXTENDS Integers, Sequences, FiniteSets, TLC

VARIABLES proc, store, throttler

vars == <<proc, store, throttler>>

(* ------------------------------ bounds -------------------------------- *)

\* largest maxAttempts a caller of withExponentialBackoff passes
MaxAttemptsBound == 4
\* largest attempt index handed to calculateDelay directly
MaxIndex == 10
\* requests of one route counted beyond its limit within one window
MaxOverLimit == 1

\* the callers: each makes one call at a time
Procs == DOMAIN proc

(* --------------------------- JavaScript values ------------------------ *)

Undefined == [t |-> "undefined"]
Null == [t |-> "null"]
Str(x) == [t |-> "string", s |-> x]
Bool(x) == [t |-> "boolean", b |-> x]
Num(x) == [t |-> "number", n |-> x]
\* a string as the sequence of its characters
Text(chars) == [t |-> "text", chars |-> chars]
\* an object standing for the data the upstream holds under a URL
Obj(x) == [t |-> "object", of |-> x]
\* a thrown error: its class, and response?.status when it has a response
Err(type, hasResponse, status) ==
    [t |-> "error", type |-> type, hasResponse |-> hasResponse, status |-> status]

\* JS truthiness, as `if (cached)` evaluates it
Truthy(v) ==
    /\ v.t \notin {"undefined", "null"}
    /\ (v.t = "string" => v.s # "")
    /\ (v.t = "text" => v.chars # <<>>)
    /\ (v.t = "number" => v.n # 0)
    /\ (v.t = "boolean" => v.b)

\* error instanceof AxiosError
IsAxiosError(v) == v.t = "error" /\ v.type = "AxiosError"

Min(a, b) == IF a <= b THEN a ELSE b

\* Math.pow(2, n) for an integer n >= 0
RECURSIVE Pow2(_)
Pow2(n) == IF n <= 0 THEN 1 ELSE 2 * Pow2(n - 1)

RECURSIVE SumSeq(_)
SumSeq(q) == IF q = <<>> THEN 0 ELSE Head(q) + SumSeq(Tail(q))

(* ---------------------- exponential-backoff.util ---------------------- *)

DEFAULT_CONFIG == [maxAttempts |-> 3, baseDelay |-> 1000, maxDelay |-> 10000]

ConfigFields == {"maxAttempts", "baseDelay", "maxDelay"}

\* mutant: the spreads are swapped, { ...config, ...DEFAULT_CONFIG }
MergeConfig_DefaultsWin(config) ==
    [f \in ConfigFields |-> DEFAULT_CONFIG[f]]

\* { ...DEFAULT_CONFIG, ...config }: a field the caller's object holds
\* overrides the default, a field it lacks keeps it
MergeConfig(config) ==
    [f \in ConfigFields |->
        IF f \in DOMAIN config THEN config[f] ELSE DEFAULT_CONFIG[f]]

\* mutant: the upper end of the 5xx range is lost
shouldRetry_Excl599(error) ==
    IF ~IsAxiosError(error) \/ ~error.hasResponse
    THEN FALSE
    ELSE LET status == error.status
         IN status = 429 \/ (status >= 500 /\ status < 599)

\* mutant: the status decides, whatever the class of the error
shouldRetry_AnyClass(error) ==
    IF ~error.hasResponse
    THEN FALSE
    ELSE error.status = 429 \/ (error.status >= 500 /\ error.status < 600)

shouldRetry(error) ==
    IF ~IsAxiosError(error) \/ ~error.hasResponse
    THEN FALSE
    ELSE LET status == error.status
         IN status = 429 \/ (status >= 500 /\ status < 600)

\* mutant: linear instead of exponential growth
calculateDelay_Linear(attempt, baseDelay, maxDelay) ==
    LET delay == baseDelay * (attempt + 1)
    IN Min(delay, maxDelay)

\* mutant: the exponential delay is not capped
calculateDelay_Uncapped(attempt, baseDelay, maxDelay) ==
    baseDelay * Pow2(attempt)

calculateDelay(attempt, baseDelay, maxDelay) ==
    LET delay == baseDelay * Pow2(attempt)
    IN Min(delay, maxDelay)

(* ------------------------------ processes ----------------------------- *)

Pending == [tag |-> "pending", val |-> Undefined]

\* history: no repository lookup has finished before this call
NoLookup ==
    [kind |-> "none", arg |-> Undefined, outcome |-> Pending,
     fetched |-> FALSE, stored |-> FALSE]

IdleProc ==
    [pc |-> "idle", kind |-> "none", arg |-> Undefined,
     \* locals of withExponentialBackoff
     cfg |-> DEFAULT_CONFIG, logger |-> FALSE,
     attempt |-> 0, lastError |-> Undefined, timer |-> 0,
     \* locals of getPokemonSpecies and of CacheWrapperService.get/set
     cacheKey |-> <<>>, url |-> <<>>, setArgs |-> Undefined,
     outcome |-> Pending,
     \* history: what the call has done and met so far
     calls |-> 0, nFailed |-> 0, nRetryable |-> 0, thrown |-> Undefined,
     fnOk |-> FALSE, fnValue |-> Undefined,
     delays |-> <<>>, slept |-> 0, sleptAtCall |-> <<>>, warns |-> <<>>,
     reads |-> 0, storeGot |-> Undefined, readFailed |-> FALSE, got |-> Undefined,
     writes |-> <<>>, writeFailed |-> FALSE, cacheWarns |-> <<>>,
     storeAtCall |-> <<>>,
     \* history: the repository lookup that finished before this call
     last |-> NoLookup,
     \* locals of PokemonService.getTranslatedPokemon, the arguments it
     \* called translate with, and what it logged
     locals |-> Undefined, translateArgs |-> Undefined, logs |-> <<>>,
     \* history: how the repositories answered the service
     speciesGot |-> Pending, translateGot |-> Pending,
     \* history: the route of the HTTP request and its number among the
     \* requests of its window
     route |-> "none", hit |-> 0]

\* the async function's promise settles
Resolve(s, v) == [s EXCEPT !.pc = "done", !.outcome = [tag |-> "resolved", val |-> v]]
Reject(s, e) == [s EXCEPT !.pc = "done", !.outcome = [tag |-> "rejected", val |-> e]]

(* -------------------------- CacheWrapperService ----------------------- *)

\* what the caller of CacheWrapperService.set does when it returns
AfterCacheSet(s) ==
    IF s.kind = "species"
    THEN Resolve(s, s.setArgs.value)    \* `return data`
    ELSE IF s.kind = "translate"
    THEN Resolve(s, s.setArgs.value)    \* `return translatedText`
    ELSE Resolve(s, Undefined)

\* set(key, value, ttl) up to `await this.cacheManager.set(key, value, ttl)`
\* mutant: a ttl of 0 is taken for "no ttl given" and replaced
CacheSet_TtlDefault(s, key, value, ttl) ==
    [s EXCEPT !.pc = "cacheSet",
              !.setArgs = [key |-> key, value |-> value, ttl |-> IF ttl = 0 THEN 60 ELSE ttl]]

CacheSet(s, key, value, ttl) ==
    [s EXCEPT !.pc = "cacheSet",
              !.setArgs = [key |-> key, value |-> value, ttl |-> ttl]]

\* set, after the store accepted the write
OnStoreSetResolved(s) == AfterCacheSet(s)

\* mutant: the store's failure escapes
OnStoreSetRejected_Rethrow(s) == Reject(s, Err("Error", FALSE, 0))

\* set, in its catch block: warn, return normally
OnStoreSetRejected(s) ==
    AfterCacheSet([s EXCEPT !.cacheWarns = Append(@, "Cache write operation failed")])

(* ------------- TranslationRepository.translate: after the fetch ------- *)

\* reading a property of undefined or null
TypeError == Err("TypeError", FALSE, 0)

\* `response.data.contents.translated`: the value of the property, or
\* the TypeError thrown when data or contents is undefined or null
ReadTranslated(response) ==
    LET data == response.data
    IN IF data.t \in {"undefined", "null"}
       THEN [ok |-> FALSE, val |-> TypeError]
       ELSE IF data.contents.t \in {"undefined", "null"}
       THEN [ok |-> FALSE, val |-> TypeError]
       ELSE [ok |-> TRUE, val |-> data.contents.translated]

\* mutant: the catch block rethrows
TranslateCatch_Rethrow(s, error) == Reject(s, error)

\* translate's catch block: warn, return null
TranslateCatch(s, error) ==
    Resolve([s EXCEPT !.warns = Append(@, [translationFailed |-> s.arg.type])], Null)

(* ---------------- withExponentialBackoff: the retry loop -------------- *)

NotFoundException == Err("NotFoundException", FALSE, 0)

\* what the caller of withExponentialBackoff does with its result:
\* getPokemonSpecies caches response.data with ttl 0
\* mutant: the fetched data is returned without being cached
BackoffReturns_NoCacheWrite(s, v) ==
    IF s.kind = "species"
    THEN Resolve(s, v.data)
    ELSE Resolve(s, v)

\* mutant: the entries are written with an hour to live
BackoffReturns_ShortTtl(s, v) ==
    IF s.kind = "species"
    THEN CacheSet(s, s.cacheKey, v.data, 3600)
    ELSE IF s.kind = "translate"
    THEN LET translatedText == ReadTranslated(v)
         IN IF translatedText.ok
            THEN CacheSet(s, s.cacheKey, translatedText.val, 3600)
            ELSE TranslateCatch(s, translatedText.val)
    ELSE Resolve(s, v)

BackoffReturns(s, v) ==
    IF s.kind = "species"
    THEN CacheSet(s, s.cacheKey, v.data, 0)
    ELSE IF s.kind = "translate"
    THEN LET translatedText == ReadTranslated(v)
         IN IF translatedText.ok
            THEN CacheSet(s, s.cacheKey, translatedText.val, 0)
            ELSE TranslateCatch(s, translatedText.val)
    ELSE Resolve(s, v)

\* mutant: the 404 is rethrown as it came
BackoffThrows_NoMapping(s, e) ==
    IF s.kind = "translate" THEN TranslateCatch(s, e) ELSE Reject(s, e)

\* mutant: every upstream failure becomes a NotFoundException
BackoffThrows_AllNotFound(s, e) ==
    IF s.kind = "species"
    THEN Reject(s, NotFoundException)
    ELSE IF s.kind = "translate"
    THEN TranslateCatch(s, e)
    ELSE Reject(s, e)

\* mutant: a 404 is remembered in the cache
BackoffThrows_NegativeCache(s, e) ==
    IF s.kind = "species"
    THEN IF IsAxiosError(e) /\ e.hasResponse /\ e.status = 404
         THEN CacheSet(s, s.cacheKey, Obj(<<"not found">>), 0)
         ELSE Reject(s, e)
    ELSE IF s.kind = "translate"
    THEN TranslateCatch(s, e)
    ELSE Reject(s, e)

\* mutant: the failure is cached as an absent value
BackoffThrows_CacheFailure(s, e) ==
    IF s.kind \in {"species", "translate"}
    THEN CacheSet(s, s.cacheKey, Null, 0)
    ELSE Reject(s, e)

\* getPokemonSpecies' catch block maps an axios 404 to NotFoundException;
\* translate's catches whatever was thrown
BackoffThrows(s, e) ==
    IF s.kind = "species"
    THEN IF IsAxiosError(e) /\ e.hasResponse /\ e.status = 404
         THEN Reject(s, NotFoundException)
         ELSE Reject(s, e)
    ELSE IF s.kind = "translate"
    THEN TranslateCatch(s, e)
    ELSE Reject(s, e)

\* the loop head with attempt = a: `attempt < maxAttempts`, then fn() is
\* called and awaited; past the loop, `throw lastError`
\* mutant: one attempt too many
EnterAttempt_OffByOne(s, a) ==
    IF a <= s.cfg.maxAttempts
    THEN [s EXCEPT !.pc = "invoke", !.attempt = a, !.calls = @ + 1,
                   !.sleptAtCall = Append(@, s.slept)]
    ELSE BackoffThrows(s, s.lastError)

\* mutant: the first attempt is made before maxAttempts is looked at
EnterAttempt_AtLeastOnce(s, a) ==
    IF a = 0 \/ a < s.cfg.maxAttempts
    THEN [s EXCEPT !.pc = "invoke", !.attempt = a, !.calls = @ + 1,
                   !.sleptAtCall = Append(@, s.slept)]
    ELSE BackoffThrows(s, s.lastError)

EnterAttempt(s, a) ==
    IF a < s.cfg.maxAttempts
    THEN [s EXCEPT !.pc = "invoke", !.attempt = a, !.calls = @ + 1,
                   !.sleptAtCall = Append(@, s.slept)]
    ELSE BackoffThrows(s, s.lastError)

\* `Request failed with status ... Retrying in ...ms (attempt i/n)`
RetryWarning(s, error, delay) ==
    [status |-> IF IsAxiosError(error) /\ error.hasResponse /\ error.status # 0
                THEN Num(error.status) ELSE Str("unknown"),
     delay |-> delay, attempt |-> s.attempt + 1, of |-> s.cfg.maxAttempts]

\* mutant: every failure is retried, shouldRetry is not asked
OnFnRejected_RetryAll(s, error) ==
    LET s1 == [s EXCEPT !.lastError = error]
    IN IF s.attempt < s.cfg.maxAttempts - 1
       THEN LET delay == calculateDelay(s.attempt, s.cfg.baseDelay, s.cfg.maxDelay)
            IN [s1 EXCEPT !.pc = "sleep", !.timer = delay,
                          !.delays = Append(@, delay),
                          !.warns = IF s.logger
                                    THEN Append(@, RetryWarning(s, error, delay))
                                    ELSE @]
       ELSE EnterAttempt(s1, s.attempt + 1)

\* mutant: the last attempt's failure is followed by a delay too
OnFnRejected_DelayAfterLast(s, error) ==
    LET s1 == [s EXCEPT !.lastError = error]
    IN IF ~shouldRetry(error)
       THEN BackoffThrows(s1, error)
       ELSE LET delay == calculateDelay(s.attempt, s.cfg.baseDelay, s.cfg.maxDelay)
            IN [s1 EXCEPT !.pc = "sleep", !.timer = delay,
                          !.delays = Append(@, delay),
                          !.warns = IF s.logger
                                    THEN Append(@, RetryWarning(s, error, delay))
                                    ELSE @]

\* mutant: the warning is logged before the last attempt is told apart
OnFnRejected_WarnOnLast(s, error) ==
    LET s1 == [s EXCEPT !.lastError = error]
        delay == calculateDelay(s.attempt, s.cfg.baseDelay, s.cfg.maxDelay)
        s2 == [s1 EXCEPT !.warns = IF s.logger
                                   THEN Append(@, RetryWarning(s, error, delay))
                                   ELSE @]
    IN IF ~shouldRetry(error)
       THEN BackoffThrows(s1, error)
       ELSE IF s.attempt < s.cfg.maxAttempts - 1
            THEN [s2 EXCEPT !.pc = "sleep", !.timer = delay,
                            !.delays = Append(@, delay)]
            ELSE EnterAttempt(s2, s.attempt + 1)

\* mutant: shouldRetry is asked about the first attempt's failure only
OnFnRejected_FirstOnly(s, error) ==
    LET s1 == [s EXCEPT !.lastError = error]
    IN IF s.attempt = 0 /\ ~shouldRetry(error)
       THEN BackoffThrows(s1, error)
       ELSE IF s.attempt < s.cfg.maxAttempts - 1
            THEN LET delay == calculateDelay(s.attempt, s.cfg.baseDelay, s.cfg.maxDelay)
                 IN [s1 EXCEPT !.pc = "sleep", !.timer = delay,
                               !.delays = Append(@, delay),
                               !.warns = IF s.logger
                                         THEN Append(@, RetryWarning(s, error, delay))
                                         ELSE @]
            ELSE EnterAttempt(s1, s.attempt + 1)

\* the catch block of one attempt, up to the next await
OnFnRejected(s, error) ==
    LET s1 == [s EXCEPT !.lastError = error]
    IN IF ~shouldRetry(error)
       THEN BackoffThrows(s1, error)
       ELSE IF s.attempt < s.cfg.maxAttempts - 1
            THEN LET delay == calculateDelay(s.attempt, s.cfg.baseDelay, s.cfg.maxDelay)
                 IN [s1 EXCEPT !.pc = "sleep", !.timer = delay,
                               !.delays = Append(@, delay),
                               !.warns = IF s.logger
                                         THEN Append(@, RetryWarning(s, error, delay))
                                         ELSE @]
            ELSE EnterAttempt(s1, s.attempt + 1)

\* mutant: the result is not returned from inside the loop
OnFnResolved_RetryAnyway(s, v) ==
    IF s.attempt < s.cfg.maxAttempts - 1
    THEN EnterAttempt(s, s.attempt + 1)
    ELSE BackoffReturns(s, v)

\* `return await fn()` when fn resolved
OnFnResolved(s, v) == BackoffReturns(s, v)

\* mutant: the attempt counter is one variable shared by all executions
OnTimer_SharedCounter(s) ==
    LET attempt == CHOOSE a \in {proc[q].attempt : q \in Procs} :
                       \A q \in Procs : proc[q].attempt <= a
    IN EnterAttempt(s, attempt + 1)

\* the setTimeout promise resolved: attempt++, back to the loop head
OnTimer(s) == EnterAttempt(s, s.attempt + 1)

\* withExponentialBackoff(fn, config, logger) up to its first await
withExponentialBackoff(s, config, logger) ==
    EnterAttempt([s EXCEPT !.cfg = MergeConfig(config), !.logger = logger,
                           !.lastError = Undefined], 0)

(* ------------------- PokemonRepository.getPokemonSpecies -------------- *)

\* String.prototype.toLowerCase on the letters the names use
LowerChar(c) ==
    CASE c = "P" -> "p"
      [] c = "I" -> "i"
      [] c = "M" -> "m"
      [] OTHER -> c

ToLowerCase(name) == [i \in DOMAIN name |-> LowerChar(name[i])]

cacheKeyPrefix == <<"pokemon:species">>
baseUrl == <<"https://pokeapi.co/api/v2">>

\* mutant: getPokemonSpecies allows one attempt more
RepositoryConfig_FourAttempts == [maxAttempts |-> 4, baseDelay |-> 1000, maxDelay |-> 10000]

\* the config getPokemonSpecies passes to withExponentialBackoff
RepositoryConfig == [maxAttempts |-> 3, baseDelay |-> 1000, maxDelay |-> 10000]

translationBaseUrl == <<"https://api.funtranslations.com/translate">>

\* the config translate passes to withExponentialBackoff
TranslationConfig == [maxAttempts |-> 3, baseDelay |-> 1000, maxDelay |-> 10000]

\* mutant: the cached text is ignored and the upstream asked anyway
TranslateAfterGet_AlwaysFetch(s, cached) ==
    withExponentialBackoff(
        [s EXCEPT !.url = translationBaseUrl \o <<"/", s.arg.type>>],
        TranslationConfig, TRUE)

\* mutant: the hit test is `cached !== null`
TranslateAfterGet_NotNull(s, cached) ==
    IF cached # Null
    THEN Resolve(s, cached)
    ELSE withExponentialBackoff(
             [s EXCEPT !.url = translationBaseUrl \o <<"/", s.arg.type>>],
             TranslationConfig, TRUE)

\* translate from `if (cached)` on: return the cached text, or build the
\* URL and post through withExponentialBackoff
TranslateAfterGet(s, cached) ==
    IF Truthy(cached)
    THEN Resolve(s, cached)
    ELSE withExponentialBackoff(
             [s EXCEPT !.url = translationBaseUrl \o <<"/", s.arg.type>>],
             TranslationConfig, TRUE)

\* mutant: a miss is answered with null, the upstream is not asked
AfterCacheGet_NoFetch(s, cached) ==
    [s EXCEPT !.pc = "done", !.got = cached,
              !.outcome = [tag |-> "resolved", val |-> cached]]

\* mutant: the cached value is ignored and the upstream asked anyway
AfterCacheGet_AlwaysFetch(s, cached) ==
    LET s1 == [s EXCEPT !.got = cached]
    IN IF s.kind = "species"
       THEN withExponentialBackoff(s1, RepositoryConfig, TRUE)
       ELSE Resolve(s1, cached)

\* what the caller of CacheWrapperService.get does with its result
AfterCacheGet(s, cached) ==
    LET s1 == [s EXCEPT !.got = cached]
    IN IF s.kind = "species"
       THEN IF Truthy(cached)
            THEN Resolve(s1, cached)
            ELSE withExponentialBackoff(s1, RepositoryConfig, TRUE)
       ELSE IF s.kind = "translate"
       THEN TranslateAfterGet(s1, cached)
       ELSE Resolve(s1, cached)

\* mutant: the cache key is built from the name as given
getPokemonSpecies_RawKey(s, name) ==
    LET normalizedName == ToLowerCase(name)
    IN [s EXCEPT !.pc = "cacheGet",
                 !.cacheKey = cacheKeyPrefix \o <<":">> \o name,
                 !.url = baseUrl \o <<"/pokemon-species/">> \o normalizedName]

\* mutant: the upstream URL is built from the name as given
getPokemonSpecies_RawUrl(s, name) ==
    LET normalizedName == ToLowerCase(name)
    IN [s EXCEPT !.pc = "cacheGet",
                 !.cacheKey = cacheKeyPrefix \o <<":">> \o normalizedName,
                 !.url = baseUrl \o <<"/pokemon-species/">> \o name]

\* getPokemonSpecies(name) up to `await this.cacheWrapper.get(cacheKey)`
getPokemonSpecies(s, name) ==
    LET normalizedName == ToLowerCase(name)
    IN [s EXCEPT !.pc = "cacheGet",
                 !.cacheKey = cacheKeyPrefix \o <<":">> \o normalizedName,
                 !.url = baseUrl \o <<"/pokemon-species/">> \o normalizedName]

(* -------------------- TranslationRepository.translate ----------------- *)

translationCacheKeyPrefix == <<"translation">>

\* createHash('sha256').update(text).digest('hex') on the texts of Texts
Sha256Hex(text) ==
    CASE text = "hello" ->
             "2cf24dba5fb0a30e26e83b2ac5b9e29e1b161e5c1fa7425e73043362938b9824"
      [] text = "Hello" ->
             "185f8db32271fe25f561a6fc938b2e264306ec304eda518007d1764826381969"

\* mutant: the style is left out of the key
generateCacheKey_NoStyle(text, type) ==
    LET textHash == Sha256Hex(text)
    IN translationCacheKeyPrefix \o <<":", textHash>>

\* mutant: the text itself is put into the key
generateCacheKey_RawText(text, type) ==
    translationCacheKeyPrefix \o <<":", type, ":", text>>

\* generateCacheKey(text, type)
generateCacheKey(text, type) ==
    LET textHash == Sha256Hex(text)
    IN translationCacheKeyPrefix \o <<":", type, ":", textHash>>

\* translate(text, type) up to `await this.cacheWrapper.get(cacheKey)`
translate(s, text, type) ==
    [s EXCEPT !.pc = "cacheGet", !.cacheKey = generateCacheKey(text, type)]

(* ---------------------- CacheWrapperService.get ----------------------- *)

\* get(key) up to `await this.cacheManager.get(key)`
CacheGet(s, key) == [s EXCEPT !.pc = "cacheGet", !.cacheKey = key]

\* `cached ?? null`
Coalesce(v) == IF v.t \in {"undefined", "null"} THEN Null ELSE v

\* get, after the store answered
OnStoreGetResolved(s, cached) == AfterCacheGet(s, Coalesce(cached))

\* mutant: the store's failure escapes
OnStoreGetRejected_Rethrow(s) == Reject(s, Err("Error", FALSE, 0))

\* get, in its catch block: warn, return null
OnStoreGetRejected(s) ==
    AfterCacheGet([s EXCEPT !.cacheWarns = Append(@, "Cache read operation failed")],
                  Null)

(* ------------------------------ PokemonService ----------------------- *)

YODA == "yoda"
SHAKESPEARE == "shakespeare"

\* mutant: both conditions are required
determineTranslationType_Both(habitat, isLegendary) ==
    IF habitat = "cave" /\ isLegendary
    THEN YODA
    ELSE SHAKESPEARE

determineTranslationType(habitat, isLegendary) ==
    IF habitat = "cave" \/ isLegendary
    THEN YODA
    ELSE SHAKESPEARE

\* flavor_text.replace(/[\n\f]/g, ' ')
ReplaceBreaks(chars) ==
    [i \in DOMAIN chars |-> IF chars[i] \in {"\n", "\f"} THEN " " ELSE chars[i]]

\* mutant: the first entry is taken whatever its language
extractEnglishDescription_FirstEntry(speciesData) ==
    LET entries == speciesData.flavor_text_entries
    IN IF entries = <<>>
       THEN Text(<<"No description available.">>)
       ELSE Text(ReplaceBreaks(entries[1].flavor_text))

\* the first entry whose language.name is 'en', cleaned of line and form
\* feeds; a fixed text when there is none
extractEnglishDescription(speciesData) ==
    LET entries == speciesData.flavor_text_entries
        english == {i \in DOMAIN entries : entries[i].language.name = "en"}
    IN IF english = {}
       THEN Text(<<"No description available.">>)
       ELSE LET first == CHOOSE i \in english : \A j \in english : i <= j
            IN Text(ReplaceBreaks(entries[first].flavor_text))

\* `speciesData.habitat?.name || 'unknown'`
HabitatName(speciesData) ==
    IF speciesData.habitat = Null THEN "unknown"
    ELSE IF speciesData.habitat.name = "" THEN "unknown"
    ELSE speciesData.habitat.name

\* getTranslatedPokemon(name) up to `await getPokemonSpecies(name)`
getTranslatedPokemon(s, name) ==
    [s EXCEPT !.pc = "awaitSpecies",
              !.logs = Append(@, [log |-> "Getting translated Pokemon", name |-> name])]

\* getPokemon(name) up to `await getPokemonSpecies(name)`
getPokemon(s, name) ==
    [s EXCEPT !.pc = "awaitSpecies",
              !.logs = Append(@, [log |-> "Getting Pokemon", name |-> name])]

\* getPokemon from the species data to its return
GetPokemonReturns(s, speciesData) ==
    LET description == extractEnglishDescription(speciesData)
    IN Resolve(s, [name |-> speciesData.name,
                   description |-> description,
                   habitat |-> HabitatName(speciesData),
                   isLegendary |-> speciesData.is_legendary])

\* the service's await of getPokemonSpecies resolved: getPokemon returns,
\* getTranslatedPokemon goes on to `await translate(...)`
OnSpeciesResolved(s, speciesData) ==
    LET description == extractEnglishDescription(speciesData)
        habitat == HabitatName(speciesData)
        isLegendary == speciesData.is_legendary
        translationType == determineTranslationType(habitat, isLegendary)
    IN IF s.kind = "getPokemon" THEN GetPokemonReturns(s, speciesData) ELSE
       [s EXCEPT !.pc = "awaitTranslate",
                 !.locals = [speciesData |-> speciesData, description |-> description,
                             habitat |-> habitat, isLegendary |-> isLegendary,
                             translationType |-> translationType],
                 !.logs = Append(@, [log |-> "Using translation",
                                     type |-> translationType, habitat |-> habitat,
                                     legendary |-> isLegendary]),
                 !.translateArgs = [text |-> description, type |-> translationType]]

\* mutant: the repository's error is caught and a generic one thrown
OnSpeciesRejected_Wrapped(s, e) == Reject(s, Err("Error", FALSE, 0))

\* getPokemonSpecies rejected: neither service method has a catch
OnSpeciesRejected(s, e) == Reject(s, e)

\* mutant: the translation is used whatever it is
OnTranslateResolved_NoFallback(s, translatedDescription) ==
    LET l == s.locals
    IN Resolve(s, [name |-> l.speciesData.name,
                   description |-> translatedDescription,
                   habitat |-> l.habitat,
                   isLegendary |-> l.isLegendary])

\* getTranslatedPokemon from the translation to its return
OnTranslateResolved(s, translatedDescription) ==
    LET l == s.locals
        s1 == IF ~Truthy(translatedDescription)
              THEN [s EXCEPT !.logs = Append(@, [warn |-> "Translation failed",
                                                  name |-> s.arg])]
              ELSE s
    IN Resolve(s1, [name |-> l.speciesData.name,
                    description |-> IF Truthy(translatedDescription)
                                    THEN translatedDescription ELSE l.description,
                    habitat |-> l.habitat,
                    isLegendary |-> l.isLegendary])

\* translate rejected: getTranslatedPokemon has no catch
OnTranslateRejected(s, e) == Reject(s, e)

(* ------------------------------- inputs ------------------------------- *)

Statuses == {200, 400, 401, 403, 404, 422, 428, 429, 430, 499, 500, 502, 503, 599, 600}

\* anything an operation can throw: axios errors with and without a
\* response, and other errors, which may carry a response of their own
Errors ==
    {Err(ty, TRUE, st) : ty \in {"AxiosError", "Error"}, st \in Statuses}
        \cup {Err(ty, FALSE, 0) : ty \in {"AxiosError", "Error"}}

FnValues == {Str("success"), Num(0)}

FnOutcomes ==
    {[ok |-> TRUE, val |-> v] : v \in FnValues}
        \cup {[ok |-> FALSE, val |-> e] : e \in Errors}

BaseDelays == {1, 1000}
MaxDelays == {3, 10000}

FullConfigs ==
    [maxAttempts : -1..MaxAttemptsBound, baseDelay : BaseDelays, maxDelay : MaxDelays]

\* a config object holding any subset of the three fields
Configs ==
    {[f \in fs |-> c[f]] : fs \in SUBSET ConfigFields, c \in FullConfigs}

\* names a caller looks up
Names == {<<"P", "I">>, <<"p", "i">>, <<"m">>}

\* what the upstream species API answers to GET url: the species data it
\* holds under that URL, or a failure
HttpErrors ==
    {Err("AxiosError", TRUE, st) : st \in {400, 404, 503}}
        \cup {Err("AxiosError", FALSE, 0)}

HttpOutcomes(url) ==
    {[ok |-> TRUE, val |-> [data |-> Obj(url)]]}
        \cup {[ok |-> FALSE, val |-> e] : e \in HttpErrors}

\* texts and styles
Texts == {"hello", "Hello"}
TranslationTypes == {"shakespeare", "yoda"}

\* the (text, style) pairs a caller has translated: one text in both
\* styles
TranslateRequests ==
    {[text |-> "hello", type |-> "yoda"],
     [text |-> "hello", type |-> "shakespeare"]}

\* the text the translation API gives for a text in a style
Translation(text, type) == type \o " says " \o text

\* the bodies the translation API can answer a POST with: the translation,
\* an empty translation, contents without `translated`, no contents
Bodies(text, type) ==
    {[t |-> "object", contents |-> [t |-> "object", translated |-> v]] :
         v \in {Str(Translation(text, type)), Str(""), Undefined}}
        \cup {[t |-> "object", contents |-> Undefined]}

\* what POST url {text} can settle with
PostOutcomes(text, type) ==
    {[ok |-> TRUE, val |-> [data |-> b]] : b \in Bodies(text, type)}
        \cup {[ok |-> FALSE, val |-> e] : e \in HttpErrors}

\* habitats handed to determineTranslationType
Habitats == {"cave", "forest", "Cave", "unknown"}

\* the species data getPokemonSpecies can resolve the service's call with
SpeciesData ==
    [name : {"zubat"},
     is_legendary : BOOLEAN,
     habitat : {Null, [name |-> "cave"], [name |-> "forest"], [name |-> ""]},
     flavor_text_entries :
         {<<>>,
          <<[flavor_text |-> <<"d">>, language |-> [name |-> "en"]]>>,
          <<[flavor_text |-> <<"x">>, language |-> [name |-> "fr"]],
            [flavor_text |-> <<"a", "\n", "b", "\f", "c">>, language |-> [name |-> "en"]],
            [flavor_text |-> <<"d">>, language |-> [name |-> "en"]]>>,
          <<[flavor_text |-> <<"x", "\n">>, language |-> [name |-> "fr"]]>>}]

\* how getPokemonSpecies can fail the service
SpeciesFailures == {NotFoundException, Err("AxiosError", TRUE, 503)}

\* what translate can resolve the service's call with
TranslateResults == {Text(<<"t">>), Text(<<>>), Null, Undefined}

\* keys, values and ttls of direct CacheWrapperService calls
TestKeys == {<<"test:key">>, <<"other:key">>}
TestValues == {Str("value"), Str(""), Num(0), Obj(<<"x">>)}
TestTtls == {0, 60}

(* -------------------------- PokemonController ------------------------- *)

\* the route handlers of PokemonController
Routes == {"getPokemon", "getTranslatedPokemon"}

\* @Throttle of each handler
Throttle ==
    [getPokemon |-> [limit |-> 10, ttl |-> 60000],
     getTranslatedPokemon |-> [limit |-> 5, ttl |-> 3600000]]

\* mutant: the translated route is left with the module's default limit
ThrottlerGuard_DefaultLimit(route, totalHits) == totalHits <= 10

\* ThrottlerGuard.canActivate with the handler's limit, totalHits being the
\* storage's count of the window's requests, this one included
ThrottlerGuard(route, totalHits) == totalHits <= Throttle[route].limit

ThrottlerException == Err("ThrottlerException", FALSE, 0)
BadRequestException == Err("BadRequestException", FALSE, 0)

\* the characters of /^[a-z0-9-]+$/
NameChars ==
    {"a", "b", "c", "d", "e", "f", "g", "h", "i", "j", "k", "l", "m",
     "n", "o", "p", "q", "r", "s", "t", "u", "v", "w", "x", "y", "z",
     "0", "1", "2", "3", "4", "5", "6", "7", "8", "9", "-"}

\* mutant: the length of the name is not validated
GetPokemonDto_NoLength(name) ==
    (IF name = <<>> THEN {"Pokemon name is required"} ELSE {})
    \cup (IF name # <<>> /\ \A i \in DOMAIN name : name[i] \in NameChars
          THEN {}
          ELSE {"Pokemon name must contain only lowercase letters, numbers, and hyphens"})

\* the validation errors of GetPokemonDto for params.name
GetPokemonDto(name) ==
    (IF name = <<>> THEN {"Pokemon name is required"} ELSE {})
    \cup (IF Len(name) >= 1 /\ Len(name) <= 50
          THEN {}
          ELSE {"Pokemon name must be between 1 and 50 characters"})
    \cup (IF name # <<>> /\ \A i \in DOMAIN name : name[i] \in NameChars
          THEN {}
          ELSE {"Pokemon name must contain only lowercase letters, numbers, and hyphens"})

\* the validation errors of GetTranslatedPokemonDto for params.name
GetTranslatedPokemonDto(name) ==
    (IF Len(name) >= 1 /\ Len(name) <= 50
     THEN {}
     ELSE {"Pokemon name must be between 1 and 50 characters"})
    \cup (IF name # <<>> /\ \A i \in DOMAIN name : name[i] \in NameChars
          THEN {}
          ELSE {"Pokemon name must contain only lowercase letters, numbers, and hyphens"})

\* the global ValidationPipe on the handler's @Param() params
ValidationPipe(route, name) ==
    IF route = "getPokemon" THEN GetPokemonDto(name) ELSE GetTranslatedPokemonDto(name)

\* PokemonController's handler calls its service method
PokemonController(s, route, name) ==
    IF route = "getPokemon"
    THEN getPokemon([s EXCEPT !.kind = "getPokemon", !.arg = name], name)
    ELSE getTranslatedPokemon([s EXCEPT !.kind = "getTranslatedPokemon", !.arg = name],
                              name)

\* one request from the guard to the handler's first await: the guard
\* runs before the pipe, the pipe before the handler
HandleRequest(s, route, name, totalHits) ==
    IF ~ThrottlerGuard(route, totalHits) THEN Reject(s, ThrottlerException)
    ELSE IF ValidationPipe(route, name) # {} THEN Reject(s, BadRequestException)
    ELSE PokemonController(s, route, name)

(* ------------------------------- actions ------------------------------ *)

\* one caller, whose calls follow one another
Init ==
    /\ proc = [p \in {1} |-> IdleProc]
    /\ store = <<>>
    /\ throttler = [route \in Routes |-> 0]

\* two callers, whose calls run concurrently
InitConcurrent ==
    /\ proc = [p \in {1, 2} |-> IdleProc]
    /\ store = <<>>
    /\ throttler = [route \in Routes |-> 0]

Set(p, s) == proc' = [proc EXCEPT ![p] = s]

\* shouldRetry(error), called directly
CallShouldRetry(p) ==
    /\ proc[p].pc = "idle"
    /\ \E e \in Errors \cup {Undefined, Str("boom")} :
          Set(p, Resolve([proc[p] EXCEPT !.kind = "shouldRetry", !.arg = e],
                         Bool(shouldRetry(e))))
    /\ UNCHANGED <<store, throttler>>

\* calculateDelay(attempt, baseDelay, maxDelay), called directly
CallCalculateDelay(p) ==
    /\ proc[p].pc = "idle"
    /\ \E i \in 0..MaxIndex, b \in BaseDelays \cup {500}, m \in MaxDelays \cup {5000} :
          Set(p, Resolve([proc[p] EXCEPT !.kind = "calculateDelay",
                                         !.arg = [attempt |-> i, baseDelay |-> b,
                                                  maxDelay |-> m]],
                         Num(calculateDelay(i, b, m))))
    /\ UNCHANGED <<store, throttler>>

\* withExponentialBackoff(fn, config, logger), called directly
CallWithExponentialBackoff(p) ==
    /\ proc[p].pc = "idle"
    /\ \E config \in Configs, logger \in BOOLEAN :
          Set(p, withExponentialBackoff(
                     [proc[p] EXCEPT !.kind = "backoff", !.arg = config],
                     config, logger))
    /\ UNCHANGED <<store, throttler>>

\* the config each of two concurrent callers passes
OwnConfig(p) ==
    IF p = 1 THEN [maxAttempts |-> 3, baseDelay |-> 1]
    ELSE [maxAttempts |-> 2, maxDelay |-> 3]

\* withExponentialBackoff(fn, config), called by p with its own config
CallWithOwnConfig(p) ==
    /\ proc[p].pc = "idle"
    /\ Set(p, withExponentialBackoff(
                  [proc[p] EXCEPT !.kind = "backoff", !.arg = OwnConfig(p)],
                  OwnConfig(p), FALSE))
    /\ UNCHANGED <<store, throttler>>

\* an axios error whose response status is 429 or 5xx
RetryableError(e) ==
    /\ IsAxiosError(e)
    /\ e.hasResponse
    /\ (e.status = 429 \/ e.status \in 500..599)

\* history: the outcome o of the invocation that just settled
Met(s, o) ==
    IF o.ok
    THEN [s EXCEPT !.fnOk = TRUE, !.fnValue = o.val]
    ELSE [s EXCEPT !.nFailed = @ + 1, !.thrown = o.val,
                   !.nRetryable = IF RetryableError(o.val) THEN @ + 1 ELSE @]

\* the promise of fn() settles: the caller's operation, or the HTTP
\* request of getPokemonSpecies or of translate
FnSettles(p) ==
    /\ proc[p].pc = "invoke"
    /\ \E o \in (IF proc[p].kind = "species" THEN HttpOutcomes(proc[p].url)
                 ELSE IF proc[p].kind = "translate"
                 THEN PostOutcomes(proc[p].arg.text, proc[p].arg.type)
                 ELSE FnOutcomes) :
          Set(p, IF o.ok THEN OnFnResolved(Met(proc[p], o), o.val)
                         ELSE OnFnRejected(Met(proc[p], o), o.val))
    /\ UNCHANGED <<store, throttler>>

Sleeping == {p \in Procs : proc[p].pc = "sleep"}

\* time passes until the earliest pending timer is due
Tick ==
    /\ Sleeping # {}
    /\ \A p \in Sleeping : proc[p].timer > 0
    /\ LET d == CHOOSE x \in {proc[p].timer : p \in Sleeping} :
                    \A p \in Sleeping : x <= proc[p].timer
       IN proc' = [p \in Procs |->
                      IF p \in Sleeping
                      THEN [proc[p] EXCEPT !.timer = @ - d, !.slept = @ + d]
                      ELSE proc[p]]
    /\ UNCHANGED <<store, throttler>>

\* the setTimeout callback of `await new Promise(...)` runs
TimerFires(p) ==
    /\ proc[p].pc = "sleep"
    /\ proc[p].timer = 0
    /\ Set(p, OnTimer(proc[p]))
    /\ UNCHANGED <<store, throttler>>

\* CacheWrapperService.get(key), called directly
CallCacheGet(p) ==
    /\ proc[p].pc = "idle"
    /\ \E key \in TestKeys :
          Set(p, CacheGet([proc[p] EXCEPT !.kind = "get", !.arg = key], key))
    /\ UNCHANGED <<store, throttler>>

\* CacheWrapperService.set(key, value, ttl), called directly
CallCacheSet(p) ==
    /\ proc[p].pc = "idle"
    /\ \E key \in TestKeys, value \in TestValues, ttl \in TestTtls :
          Set(p, CacheSet([proc[p] EXCEPT !.kind = "set",
                                          !.arg = [key |-> key, value |-> value,
                                                   ttl |-> ttl],
                                          !.storeAtCall = store],
                          key, value, ttl))
    /\ UNCHANGED <<store, throttler>>

\* what cacheManager.get(key) can resolve with: the value stored under the
\* key, or undefined or null when nothing is
StoreAnswers(key) ==
    IF key \in DOMAIN store THEN {store[key].value} ELSE {Undefined, Null}

\* cacheManager.get(key) settles: the store answers or fails
CacheGetSettles(p) ==
    /\ proc[p].pc = "cacheGet"
    /\ \/ \E v \in StoreAnswers(proc[p].cacheKey) :
             Set(p, OnStoreGetResolved(
                        [proc[p] EXCEPT !.reads = @ + 1, !.storeGot = v], v))
       \/ Set(p, OnStoreGetRejected(
                     [proc[p] EXCEPT !.reads = @ + 1, !.readFailed = TRUE]))
    /\ UNCHANGED <<store, throttler>>

\* cacheManager.set(key, value, ttl) settles: the store takes the entry or
\* fails and stays as it was
CacheSetSettles(p) ==
    /\ proc[p].pc = "cacheSet"
    /\ LET a == proc[p].setArgs
       IN \/ /\ store' = [k \in DOMAIN store \cup {a.key} |->
                            IF k = a.key THEN [value |-> a.value, ttl |-> a.ttl]
                                         ELSE store[k]]
             /\ Set(p, OnStoreSetResolved([proc[p] EXCEPT !.writes = Append(@, a)]))
          \/ /\ store' = store
             /\ Set(p, OnStoreSetRejected([proc[p] EXCEPT !.writeFailed = TRUE]))
    /\ UNCHANGED throttler

\* PokemonRepository.getPokemonSpecies(name) is called
CallGetPokemonSpecies(p) ==
    /\ proc[p].pc = "idle"
    /\ \E name \in Names :
          Set(p, getPokemonSpecies([proc[p] EXCEPT !.kind = "species", !.arg = name,
                                                   !.storeAtCall = store],
                                   name))
    /\ UNCHANGED <<store, throttler>>

\* TranslationRepository.translate(text, type) is called
CallTranslate(p) ==
    /\ proc[p].pc = "idle"
    /\ \E r \in TranslateRequests :
          Set(p, translate([proc[p] EXCEPT !.kind = "translate", !.arg = r,
                                           !.storeAtCall = store],
                           r.text, r.type))
    /\ UNCHANGED <<store, throttler>>

\* TranslationRepository.generateCacheKey(text, type), called directly
CallGenerateCacheKey(p) ==
    /\ proc[p].pc = "idle"
    /\ \E text \in Texts, type \in TranslationTypes :
          Set(p, Resolve([proc[p] EXCEPT !.kind = "generateCacheKey",
                                         !.arg = [text |-> text, type |-> type]],
                         Text(generateCacheKey(text, type))))
    /\ UNCHANGED <<store, throttler>>

\* PokemonService.determineTranslationType(habitat, isLegendary), called
\* directly
CallDetermineTranslationType(p) ==
    /\ proc[p].pc = "idle"
    /\ \E habitat \in Habitats, isLegendary \in BOOLEAN :
          Set(p, Resolve([proc[p] EXCEPT !.kind = "determineTranslationType",
                                         !.arg = [habitat |-> habitat,
                                                  isLegendary |-> isLegendary]],
                         Str(determineTranslationType(habitat, isLegendary))))
    /\ UNCHANGED <<store, throttler>>

\* PokemonService.getTranslatedPokemon(name) is called
CallGetTranslatedPokemon(p) ==
    /\ proc[p].pc = "idle"
    /\ \E name \in {"zubat", "ZUBAT"} :
          Set(p, getTranslatedPokemon(
                     [proc[p] EXCEPT !.kind = "getTranslatedPokemon", !.arg = name],
                     name))
    /\ UNCHANGED <<store, throttler>>

\* PokemonService.getPokemon(name) is called
CallGetPokemon(p) ==
    /\ proc[p].pc = "idle"
    /\ \E name \in {"zubat", "ZUBAT"} :
          Set(p, getPokemon([proc[p] EXCEPT !.kind = "getPokemon", !.arg = name],
                            name))
    /\ UNCHANGED <<store, throttler>>

\* the repository's getPokemonSpecies settles the service's await
SpeciesSettles(p) ==
    /\ proc[p].pc = "awaitSpecies"
    /\ \/ \E d \in SpeciesData :
             Set(p, OnSpeciesResolved(
                        [proc[p] EXCEPT !.speciesGot = [tag |-> "resolved", val |-> d]],
                        d))
       \/ \E e \in SpeciesFailures :
             Set(p, OnSpeciesRejected(
                        [proc[p] EXCEPT !.speciesGot = [tag |-> "rejected", val |-> e]],
                        e))
    /\ UNCHANGED <<store, throttler>>

\* the repository's translate settles the service's await
TranslateSettles(p) ==
    /\ proc[p].pc = "awaitTranslate"
    /\ \/ \E v \in TranslateResults :
             Set(p, OnTranslateResolved(
                        [proc[p] EXCEPT !.translateGot = [tag |-> "resolved", val |-> v]],
                        v))
       \/ \E e \in {Err("Error", FALSE, 0)} :
             Set(p, OnTranslateRejected(
                        [proc[p] EXCEPT !.translateGot = [tag |-> "rejected", val |-> e]],
                        e))
    /\ UNCHANGED <<store, throttler>>

\* the names of the requests: lowercase with a hyphen and a digit, of
\* 50 characters, with uppercase letters, a space, a special character,
\* of 51 characters
RequestNames ==
    {<<"m", "-", "2">>, [i \in 1..50 |-> "a"],
     <<"P", "I">>, <<"p", " ", "i">>, <<"p", "$">>, [i \in 1..51 |-> "a"]}

\* a client's GET /pokemon/:name or GET /pokemon/translated/:name arrives:
\* the throttler storage counts it, then guard, pipe and handler run
Request(p) ==
    /\ proc[p].pc = "idle"
    /\ \E route \in Routes, name \in RequestNames :
          LET totalHits == throttler[route] + 1
          IN /\ totalHits <= Throttle[route].limit + MaxOverLimit
             /\ throttler' = [throttler EXCEPT ![route] = totalHits]
             /\ Set(p, HandleRequest([proc[p] EXCEPT !.route = route, !.hit = totalHits,
                                                     !.arg = name],
                                     route, name, totalHits))
    /\ UNCHANGED store

\* the ttl of a route's window has passed: its count starts again
ThrottleExpires(route) ==
    /\ throttler[route] > 0
    /\ throttler' = [throttler EXCEPT ![route] = 0]
    /\ UNCHANGED <<proc, store>>

\* history: what a finished repository lookup was called with, how it
\* settled, whether its upstream request succeeded and the store took its
\* write
Finished(s) ==
    IF s.kind \in {"species", "translate"}
    THEN [kind |-> s.kind, arg |-> s.arg, outcome |-> s.outcome,
          fetched |-> s.fnOk, stored |-> s.writes # <<>>]
    ELSE NoLookup

\* the caller has taken the result; the process is free for another call
Returns(p) ==
    /\ proc[p].pc = "done"
    /\ Set(p, [IdleProc EXCEPT !.last = Finished(proc[p])])
    /\ UNCHANGED <<store, throttler>>

(* --------------------------- specifications --------------------------- *)

\* direct calls of the pure functions
NextPure ==
    \E p \in Procs : CallShouldRetry(p) \/ CallCalculateDelay(p)

SpecPure == Init /\ [][NextPure]_vars

\* one direct call of withExponentialBackoff
NextRetry ==
    \/ \E p \in Procs : CallWithExponentialBackoff(p)
    \/ \E p \in Procs : FnSettles(p)
    \/ Tick
    \/ \E p \in Procs : TimerFires(p)

SpecRetry == Init /\ [][NextRetry]_vars

\* direct calls of CacheWrapperService, one after another
NextCache ==
    \/ \E p \in Procs : CallCacheGet(p)
    \/ \E p \in Procs : CallCacheSet(p)
    \/ \E p \in Procs : CacheGetSettles(p)
    \/ \E p \in Procs : CacheSetSettles(p)
    \/ \E p \in Procs : Returns(p)

SpecCache == Init /\ [][NextCache]_vars

\* species lookups through the cache store, one after another
Next ==
    \/ \E p \in Procs : CallGetPokemonSpecies(p)
    \/ \E p \in Procs : CacheGetSettles(p)
    \/ \E p \in Procs : FnSettles(p)
    \/ Tick
    \/ \E p \in Procs : TimerFires(p)
    \/ \E p \in Procs : CacheSetSettles(p)
    \/ \E p \in Procs : Returns(p)

Spec == Init /\ [][Next]_vars

\* translations through the cache store, one after another
NextTranslate ==
    \/ \E p \in Procs : CallGenerateCacheKey(p)
    \/ \E p \in Procs : CallTranslate(p)
    \/ \E p \in Procs : CacheGetSettles(p)
    \/ \E p \in Procs : FnSettles(p)
    \/ Tick
    \/ \E p \in Procs : TimerFires(p)
    \/ \E p \in Procs : CacheSetSettles(p)
    \/ \E p \in Procs : Returns(p)

SpecTranslate == Init /\ [][NextTranslate]_vars

\* species lookups and translations through one cache store, one after
\* another
NextLookups ==
    \/ \E p \in Procs : CallGetPokemonSpecies(p)
    \/ \E p \in Procs : CallTranslate(p)
    \/ \E p \in Procs : CacheGetSettles(p)
    \/ \E p \in Procs : FnSettles(p)
    \/ Tick
    \/ \E p \in Procs : TimerFires(p)
    \/ \E p \in Procs : CacheSetSettles(p)
    \/ \E p \in Procs : Returns(p)

SpecLookups == Init /\ [][NextLookups]_vars

\* the same, every cache operation and HTTP request settling and every
\* timer firing in the end
FairLookups ==
    /\ SpecLookups
    /\ WF_vars(CacheGetSettles(1))
    /\ WF_vars(FnSettles(1))
    /\ WF_vars(Tick)
    /\ WF_vars(TimerFires(1))
    /\ WF_vars(CacheSetSettles(1))

\* one species lookup or translation by each of two concurrent callers
NextConcurrent ==
    \/ \E p \in Procs : CallGetPokemonSpecies(p)
    \/ \E p \in Procs : CallTranslate(p)
    \/ \E p \in Procs : CacheGetSettles(p)
    \/ \E p \in Procs : FnSettles(p)
    \/ Tick
    \/ \E p \in Procs : TimerFires(p)
    \/ \E p \in Procs : CacheSetSettles(p)

SpecConcurrent == InitConcurrent /\ [][NextConcurrent]_vars

\* two callers, each making one direct call of withExponentialBackoff or
\* of CacheWrapperService.get or set, their steps interleaving
NextInterleaved ==
    \/ \E p \in Procs : CallWithOwnConfig(p)
    \/ \E p \in Procs : CallCacheGet(p)
    \/ \E p \in Procs : CallCacheSet(p)
    \/ \E p \in Procs : FnSettles(p)
    \/ Tick
    \/ \E p \in Procs : TimerFires(p)
    \/ \E p \in Procs : CacheGetSettles(p)
    \/ \E p \in Procs : CacheSetSettles(p)

SpecInterleaved == InitConcurrent /\ [][NextInterleaved]_vars

\* calls of PokemonService, its repositories answering in any way
NextService ==
    \/ \E p \in Procs : CallDetermineTranslationType(p)
    \/ \E p \in Procs : CallGetPokemon(p)
    \/ \E p \in Procs : CallGetTranslatedPokemon(p)
    \/ \E p \in Procs : SpeciesSettles(p)
    \/ \E p \in Procs : TranslateSettles(p)
    \/ \E p \in Procs : Returns(p)

SpecService == Init /\ [][NextService]_vars

\* calls of getTranslatedPokemon, its repositories answering in any way,
\* and calls of translate, with a store and an upstream that may fail, one
\* after another
NextTranslations ==
    \/ \E p \in Procs : CallGetTranslatedPokemon(p)
    \/ \E p \in Procs : SpeciesSettles(p)
    \/ \E p \in Procs : TranslateSettles(p)
    \/ \E p \in Procs : CallTranslate(p)
    \/ \E p \in Procs : CacheGetSettles(p)
    \/ \E p \in Procs : FnSettles(p)
    \/ Tick
    \/ \E p \in Procs : TimerFires(p)
    \/ \E p \in Procs : CacheSetSettles(p)
    \/ \E p \in Procs : Returns(p)

SpecTranslations == Init /\ [][NextTranslations]_vars

\* HTTP requests of one client, one after another, through guard, pipe and
\* controller to PokemonService
NextHttp ==
    \/ \E p \in Procs : Request(p)
    \/ \E route \in Routes : ThrottleExpires(route)
    \/ \E p \in Procs : SpeciesSettles(p)
    \/ \E p \in Procs : TranslateSettles(p)
    \/ \E p \in Procs : Returns(p)

SpecHttp == Init /\ [][NextHttp]_vars

(* ------------------------------- claims ------------------------------- *)

Resolved(v) == [tag |-> "resolved", val |-> v]
Rejected(e) == [tag |-> "rejected", val |-> e]

\* the calls of one kind
Of(kind) == {p \in Procs : proc[p].kind = kind}

\* C1: when every invocation of the operation failed with a retryable
\* error and maxAttempts >= 1, withExponentialBackoff has invoked it exactly
\* maxAttempts times when it settles, never more before, and it rejects
\* with the error the last invocation threw.
C1_ExhaustedRetries ==
    \A p \in Of("backoff") :
        LET s == proc[p]
        IN (s.cfg.maxAttempts >= 1 /\ ~s.fnOk /\ s.nRetryable = s.nFailed)
           => /\ s.calls <= s.cfg.maxAttempts
              /\ s.pc = "done" => /\ s.calls = s.cfg.maxAttempts
                                  /\ s.nFailed = s.calls
                                  /\ s.outcome = Rejected(s.thrown)

C1_Witness ==
    \E p \in Of("backoff") :
        LET s == proc[p]
        IN /\ s.pc = "done" /\ s.cfg.maxAttempts = 3
           /\ s.calls = 3 /\ s.nRetryable = 3
           /\ s.thrown = Err("AxiosError", TRUE, 500)
           /\ s.outcome = Rejected(s.thrown)

\* an error that carries status 429 or 500..599, whatever its class
CarriesRetryableStatus(e) ==
    /\ e.t = "error"
    /\ e.hasResponse
    /\ (e.status = 429 \/ e.status \in 500..599)

\* C2 as stated: shouldRetry(e) is true exactly when e carries status 429
\* or 500..599.
C2_Original ==
    \A p \in Of("shouldRetry") :
        proc[p].pc = "done"
            => proc[p].outcome = Resolved(Bool(CarriesRetryableStatus(proc[p].arg)))

\* C2, amended: shouldRetry(e) is true exactly when e is an AxiosError
\* that has a response whose status is 429 or in 500..599; it is false for
\* every other status, for an error without a response and for an error of
\* another class whatever status it carries.
C2_ShouldRetry ==
    \A p \in Of("shouldRetry") :
        proc[p].pc = "done"
            => proc[p].outcome = Resolved(Bool(RetryableError(proc[p].arg)))

C2_Witness ==
    \E p \in Of("shouldRetry") :
        /\ proc[p].pc = "done"
        /\ proc[p].arg = Err("AxiosError", TRUE, 599)
        /\ proc[p].outcome = Resolved(Bool(TRUE))

\* C3: when the first invocation fails with a non-retryable error,
\* withExponentialBackoff has settled: the operation was invoked once, no
\* delay was performed, and the call rejects with that same error.
C3_NonRetryableFailsAtOnce ==
    \A p \in Of("backoff") :
        LET s == proc[p]
        IN (s.calls = 1 /\ s.nFailed = 1 /\ s.nRetryable = 0)
           => /\ s.pc = "done"
              /\ s.outcome = Rejected(s.thrown)
              /\ s.delays = <<>> /\ s.slept = 0 /\ s.warns = <<>>

C3_Witness ==
    \E p \in Of("backoff") :
        LET s == proc[p]
        IN /\ s.pc = "done" /\ s.calls = 1 /\ s.cfg.maxAttempts = 3
           /\ s.thrown = Err("AxiosError", TRUE, 404)
           /\ s.outcome = Rejected(s.thrown)

\* C4: once an invocation has succeeded, after k retryable failures,
\* withExponentialBackoff has settled with that success value, the
\* operation was invoked exactly k + 1 <= maxAttempts times, and it is not
\* invoked again.
C4_SuccessAfterRetries ==
    \A p \in Of("backoff") :
        LET s == proc[p]
        IN s.fnOk
           => /\ s.pc = "done"
              /\ s.outcome = Resolved(s.fnValue)
              /\ s.nRetryable = s.nFailed
              /\ s.calls = s.nFailed + 1
              /\ s.calls <= s.cfg.maxAttempts

C4_Witness ==
    \E p \in Of("backoff") :
        LET s == proc[p]
        IN /\ s.pc = "done" /\ s.fnOk /\ s.cfg.maxAttempts = 3
           /\ s.nFailed = 2 /\ s.calls = 3
           /\ s.outcome = Resolved(Str("success"))

\* the delays 1000, 2000, 4000, 8000, 10000, 10000, ... of baseDelay 1000
\* and maxDelay 10000
Schedule(i) ==
    CASE i = 0 -> 1000
      [] i = 1 -> 2000
      [] i = 2 -> 4000
      [] i = 3 -> 8000
      [] OTHER -> 10000

\* C5: calculateDelay(i, baseDelay, maxDelay) = min(baseDelay * 2^i,
\* maxDelay) for every index i >= 0; it never exceeds maxDelay; for 1000
\* and 10000 it gives 1000, 2000, 4000, 8000, 10000, 10000, ...
C5_CalculateDelay ==
    \A p \in Of("calculateDelay") :
        LET a == proc[p].arg
            exact == a.baseDelay * (2 ^ a.attempt)
        IN proc[p].pc = "done"
           => /\ proc[p].outcome =
                    Resolved(Num(IF exact <= a.maxDelay THEN exact ELSE a.maxDelay))
              /\ proc[p].outcome.val.n <= a.maxDelay
              /\ (a.baseDelay = 1000 /\ a.maxDelay = 10000)
                    => proc[p].outcome.val.n = Schedule(a.attempt)

C5_Witness ==
    \E p \in Of("calculateDelay") :
        /\ proc[p].pc = "done"
        /\ proc[p].arg = [attempt |-> 5, baseDelay |-> 1000, maxDelay |-> 10000]
        /\ proc[p].outcome = Resolved(Num(10000))

\* the delay the claim expects after the failure of attempt i
ExpectedDelay(s, i) ==
    LET exact == s.cfg.baseDelay * (2 ^ i)
    IN IF exact <= s.cfg.maxDelay THEN exact ELSE s.cfg.maxDelay

\* C6: withExponentialBackoff delays only between attempts.  The delays
\* performed are those after the retryable failures of the attempts
\* i < maxAttempts - 1, the i-th of length calculateDelay(i, baseDelay,
\* maxDelay); each invocation after the first starts when the delay before
\* it has elapsed in full; no delay follows the last attempt; an exhausted
\* run with maxAttempts = 3, baseDelay = 1000 (maxDelay 10000) performs the
\* two delays 1000, 2000.
C6_DelaysOnlyBetweenAttempts ==
    \A p \in Of("backoff") :
        LET s == proc[p]
            n == s.cfg.maxAttempts
        IN /\ Len(s.delays) = IF s.nRetryable <= n - 1 THEN s.nRetryable
                              ELSE IF n >= 1 THEN n - 1 ELSE 0
           /\ \A i \in 1..Len(s.delays) : s.delays[i] = ExpectedDelay(s, i - 1)
           /\ Len(s.sleptAtCall) = s.calls
           /\ \A j \in 2..s.calls :
                 /\ j - 1 <= Len(s.delays)
                 /\ s.sleptAtCall[j] - s.sleptAtCall[j - 1] = s.delays[j - 1]
           /\ s.pc = "invoke" => s.calls = Len(s.delays) + 1
           /\ s.pc = "done" => /\ s.timer = 0
                               /\ s.slept = SumSeq(s.delays)
                               /\ Len(s.delays) < s.calls \/ s.calls = 0
           /\ (s.pc = "done" /\ n = 3 /\ s.nRetryable = 3
                 /\ s.cfg.baseDelay = 1000 /\ s.cfg.maxDelay = 10000)
                 => s.delays = <<1000, 2000>>

C6_Witness ==
    \E p \in Of("backoff") :
        LET s == proc[p]
        IN /\ s.pc = "done" /\ s.cfg.maxAttempts = 3 /\ s.cfg.baseDelay = 1000
           /\ s.calls = 3 /\ s.nRetryable = 3
           /\ s.delays = <<1000, 2000>> /\ s.slept = 3000
           /\ s.outcome.tag = "rejected"

\* C7: CacheWrapperService.get never throws.  When the store read failed
\* it resolves with null and has logged one warning; when the read
\* succeeded it resolves with the value the store gave, or with null when
\* the store gave undefined or null, and logs nothing.
C7_CacheGetNeverThrows ==
    \A p \in Of("get") :
        LET s == proc[p]
        IN s.pc = "done"
           => /\ s.outcome.tag = "resolved"
              /\ s.reads = 1
              /\ s.readFailed => /\ s.outcome.val = Null
                                 /\ s.cacheWarns = <<"Cache read operation failed">>
              /\ ~s.readFailed => /\ s.outcome.val =
                                        (IF s.storeGot \in {Undefined, Null}
                                         THEN Null ELSE s.storeGot)
                                  /\ s.cacheWarns = <<>>

C7_Witness ==
    \E p \in Of("get") :
        /\ proc[p].pc = "done" /\ proc[p].readFailed
        /\ proc[p].cacheKey \in DOMAIN store
        /\ proc[p].outcome = Resolved(Null)

\* C8: CacheWrapperService.set never throws.  When the store write failed
\* it returns normally, has logged one warning, and the store is as it was;
\* when the write succeeded, the store was handed exactly the caller's
\* (key, value, ttl), a ttl of 0 included, and holds that entry.
C8_CacheSetNeverThrows ==
    \A p \in Of("set") :
        LET s == proc[p]
        IN s.pc = "done"
           => /\ s.outcome = Resolved(Undefined)
              /\ s.writeFailed => /\ s.cacheWarns = <<"Cache write operation failed">>
                                  /\ s.writes = <<>>
                                  /\ store = s.storeAtCall
              /\ ~s.writeFailed => /\ s.cacheWarns = <<>>
                                   /\ s.writes = <<s.arg>>
                                   /\ s.arg.key \in DOMAIN store
                                   /\ store[s.arg.key] =
                                         [value |-> s.arg.value, ttl |-> s.arg.ttl]

C8_Witness ==
    \E p \in Of("set") :
        /\ proc[p].pc = "done" /\ ~proc[p].writeFailed
        /\ proc[p].arg.ttl = 0
        /\ proc[p].writes = <<proc[p].arg>>
        /\ proc[p].outcome = Resolved(Undefined)

\* C9: when the cache read of getPokemonSpecies returned a value, the call
\* has returned that value, has sent no upstream request and has written
\* nothing to the cache.
C9_CacheHitReturnsCached ==
    \A p \in Of("species") :
        LET s == proc[p]
        IN (s.reads = 1 /\ s.got # Null)
           => /\ s.pc = "done"
              /\ s.outcome = Resolved(s.got)
              /\ s.got = s.storeGot
              /\ s.calls = 0
              /\ s.writes = <<>> /\ ~s.writeFailed

C9_Witness ==
    \E p \in Of("species") :
        LET s == proc[p]
        IN /\ s.pc = "done" /\ s.reads = 1 /\ s.got.t = "object"
           /\ s.outcome = Resolved(s.got) /\ s.calls = 0

\* C10: when getPokemonSpecies returns after a cache miss and a successful
\* upstream response, it returns exactly the response's data, and before
\* returning it has handed (lookup key, data, ttl 0) to the cache; if the
\* store took the write, the store holds the data under the lookup key.
C10_MissFetchesAndCaches ==
    \A p \in Of("species") :
        LET s == proc[p]
        IN (s.pc = "done" /\ s.fnOk)
           => /\ ~Truthy(s.got)
              /\ s.outcome = Resolved(s.fnValue.data)
              /\ s.setArgs = [key |-> s.cacheKey, value |-> s.fnValue.data, ttl |-> 0]
              /\ s.writeFailed \/ s.writes = <<s.setArgs>>
              /\ ~s.writeFailed => /\ s.cacheKey \in DOMAIN store
                                   /\ store[s.cacheKey] =
                                         [value |-> s.fnValue.data, ttl |-> 0]

C10_Witness ==
    \E p \in Of("species") :
        LET s == proc[p]
        IN /\ s.pc = "done" /\ s.fnOk /\ ~s.writeFailed
           /\ s.arg = <<"P", "I">>
           /\ s.outcome = Resolved(s.fnValue.data)
           /\ store[s.cacheKey] = [value |-> s.fnValue.data, ttl |-> 0]

\* the lowercase form of each name of Names
Lowercase(n) ==
    CASE n = <<"P", "I">> -> <<"p", "i">>
      [] n = <<"p", "i">> -> <<"p", "i">>
      [] n = <<"m">> -> <<"m">>

\* the key of every cache read and write a species lookup has made so far:
\* the key of its get, the key handed to set, the keys the store took
SpeciesKeysUsed(s) ==
    {s.cacheKey}
        \cup (IF s.setArgs = Undefined THEN {} ELSE {s.setArgs.key})
        \cup {s.writes[i].key : i \in DOMAIN s.writes}

\* C11 as stated: the cache key that species lookup reads and writes for a
\* name n is `species:{lowercase(n)}`.
C11_Original ==
    \A p \in Of("species") :
        SpeciesKeysUsed(proc[p]) = {<<"species", ":">> \o Lowercase(proc[p].arg)}

\* C11, amended: the cache key that species lookup reads and writes for a
\* name n is `pokemon:species:{lowercase(n)}`, and the store holds species
\* data under keys of that form only.
C11_SpeciesCacheKey ==
    /\ \A p \in Of("species") :
          SpeciesKeysUsed(proc[p]) =
              {<<"pokemon:species", ":">> \o Lowercase(proc[p].arg)}
    /\ \A k \in DOMAIN store :
          \E n \in Names : k = <<"pokemon:species", ":">> \o Lowercase(n)

C11_Witness ==
    \E p \in Of("species") :
        LET s == proc[p]
        IN /\ s.pc = "done" /\ s.arg = <<"P", "I">>
           /\ s.reads = 1 /\ s.fnOk
           /\ s.writes = <<[key |-> <<"pokemon:species", ":", "p", "i">>,
                            value |-> s.fnValue.data, ttl |-> 0]>>
           /\ <<"pokemon:species", ":", "p", "i">> \in DOMAIN store

\* C12: species lookup is invariant under input case.  The cache key of the
\* read and of the write and the upstream URL of a lookup of n are those
\* of a lookup of lowercase(n), the URL being built from the lowercased
\* name; and a lookup that follows a successful fetch of a name with the
\* same lowercase form, the store having taken the write and answering
\* the read, is a cache hit: it returns the data fetched before and sends
\* no upstream request.
C12_CaseInvariant ==
    \A p \in Of("species") :
        LET s == proc[p]
            lower == getPokemonSpecies(IdleProc, Lowercase(s.arg))
        IN /\ s.cacheKey = lower.cacheKey
           /\ s.url = lower.url
           /\ s.url = <<"https://pokeapi.co/api/v2", "/pokemon-species/">>
                          \o Lowercase(s.arg)
           /\ s.setArgs # Undefined => s.setArgs.key = s.cacheKey
           /\ (/\ s.last.kind = "species" /\ s.last.fetched /\ s.last.stored
               /\ Lowercase(s.last.arg) = Lowercase(s.arg)
               /\ s.reads = 1 /\ ~s.readFailed)
              => /\ s.pc = "done"
                 /\ s.outcome = s.last.outcome
                 /\ s.outcome.tag = "resolved"
                 /\ s.calls = 0

C12_Witness ==
    \E p \in Of("species") :
        LET s == proc[p]
        IN /\ s.last.kind = "species" /\ s.last.arg = <<"P", "I">>
           /\ s.last.fetched /\ s.last.stored
           /\ s.arg = <<"p", "i">> /\ s.pc = "done" /\ s.calls = 0
           /\ s.outcome = Resolved(Obj(s.url))

\* the upstream's answer with status 404
Http404 == Err("AxiosError", TRUE, 404)

\* C13: when the upstream answered a getPokemonSpecies request with status
\* 404 (the cache having missed), the call has rejected with
\* NotFoundException and the request that met the 404 was its last: one
\* request in all when the 404 answered the first.  NotFoundException is
\* the outcome of no other failure, is none of the upstream's errors, and
\* nothing was written to the cache.
C13_NotFound ==
    \A p \in Of("species") :
        LET s == proc[p]
        IN /\ (s.calls >= 1 /\ s.nFailed = s.calls /\ s.thrown = Http404)
              => /\ s.pc = "done"
                 /\ ~Truthy(s.got)
                 /\ s.outcome = Rejected(NotFoundException)
                 /\ s.calls = s.nRetryable + 1
                 /\ s.nRetryable = 0 => (s.calls = 1 /\ s.delays = <<>>)
                 /\ s.setArgs = Undefined /\ s.writes = <<>>
           /\ (s.pc = "done" /\ s.outcome = Rejected(NotFoundException))
              => s.thrown = Http404
           /\ NotFoundException \notin HttpErrors

C13_Witness ==
    \E p \in Of("species") :
        LET s == proc[p]
        IN /\ s.pc = "done" /\ s.reads = 1 /\ s.got = Null
           /\ s.calls = 1 /\ s.thrown = Http404
           /\ s.outcome = Rejected(NotFoundException)

\* C14: when the upstream request of getPokemonSpecies has failed for good
\* with anything other than a 404 (a 429/5xx on the last of the three
\* attempts, another 4xx or an error without a response on any attempt),
\* the call has rejected with that very error; a lookup whose upstream
\* request did not succeed never resolves unless the cache answered it.
C14_UpstreamErrorPropagates ==
    \A p \in Of("species") :
        LET s == proc[p]
            failedForGood ==
                /\ s.calls >= 1 /\ s.nFailed = s.calls
                /\ (~RetryableError(s.thrown) \/ s.calls = 3)
        IN /\ (failedForGood /\ s.thrown # Http404)
              => /\ s.pc = "done"
                 /\ s.outcome = Rejected(s.thrown)
                 /\ s.thrown \in HttpErrors
                 /\ s.calls <= 3
           /\ (s.pc = "done" /\ s.outcome.tag = "resolved")
              => (Truthy(s.got) \/ s.fnOk)

C14_Witness ==
    \E p \in Of("species") :
        LET s == proc[p]
        IN /\ s.pc = "done" /\ s.calls = 3 /\ s.nRetryable = 3
           /\ s.thrown = Err("AxiosError", TRUE, 503)
           /\ s.outcome = Rejected(s.thrown)

\* the upstream call of a translate failed for good: a request failed with
\* an error that is not retried or the third request failed, or the body
\* of the response held no `translated` text
UpstreamFailed(s) ==
    \/ /\ s.calls >= 1 /\ s.nFailed = s.calls
       /\ (~RetryableError(s.thrown) \/ s.calls = 3)
    \/ /\ s.fnOk
       /\ \/ s.fnValue.data.contents = Undefined
          \/ s.fnValue.data.contents.translated = Undefined

\* C15: translate never raises an error, and once its upstream call has
\* failed (a network error, a 4xx, a 429/5xx on the third attempt, a
\* malformed body) it has resolved with null.
C15_TranslateNeverRaises ==
    \A p \in Of("translate") :
        LET s == proc[p]
        IN /\ s.outcome.tag # "rejected"
           /\ UpstreamFailed(s) => (s.pc = "done" => s.outcome = Resolved(Null))

\* a translate that met a body whose contents lack `translated` has
\* cached undefined and resolved with it
C15_MalformedBody ==
    \E p \in Of("translate") :
        LET s == proc[p]
        IN /\ s.pc = "done" /\ s.fnOk
           /\ s.fnValue.data.contents # Undefined
           /\ s.fnValue.data.contents.translated = Undefined
           /\ s.writes = <<[key |-> s.cacheKey, value |-> Undefined, ttl |-> 0]>>
           /\ s.outcome = Resolved(Undefined)

\* the upstream's answer with status 503
Http503 == Err("AxiosError", TRUE, 503)

\* C16: a translate whose cache read missed and whose every upstream
\* request so far was answered with 503 has written nothing to the cache
\* and has sent at most 3 requests, the second 1000 ms after the first
\* failed and the third 2000 ms after the second failed; when the third
\* is answered with 503 the call has resolved with null, and it does not
\* settle before.
C16_AlwaysUnavailable ==
    \A p \in Of("translate") :
        LET s == proc[p]
        IN (s.calls >= 1 /\ ~s.fnOk /\ s.nRetryable = s.nFailed
               /\ (s.nFailed >= 1 => s.thrown = Http503))
           => /\ ~Truthy(s.got)
              /\ s.calls <= 3
              /\ s.sleptAtCall = SubSeq(<<0, 1000, 3000>>, 1, s.calls)
              /\ s.setArgs = Undefined /\ s.writes = <<>> /\ ~s.writeFailed
              /\ store = s.storeAtCall
              /\ s.nFailed = 3 => /\ s.pc = "done"
                                  /\ s.outcome = Resolved(Null)
                                  /\ s.delays = <<1000, 2000>>
                                  /\ s.slept = 3000
              /\ s.pc = "done" => s.nFailed = 3

C16_Witness ==
    \E p \in Of("translate") :
        LET s == proc[p]
        IN /\ s.pc = "done" /\ s.got = Null /\ ~s.readFailed
           /\ s.calls = 3 /\ s.nRetryable = 3 /\ s.thrown = Http503
           /\ s.delays = <<1000, 2000>>
           /\ s.outcome = Resolved(Null)
           /\ s.cacheKey \notin DOMAIN store

\* a translate(t, s) that follows a translate(t, s) which resolved with a
\* text it got from the upstream and which the store took, the store
\* answering the read of the second call
SecondTranslate(s) ==
    /\ s.last.kind = "translate" /\ s.last.arg = s.arg
    /\ s.last.fetched /\ s.last.stored
    /\ s.last.outcome.tag = "resolved" /\ s.last.outcome.val.t = "string"
    /\ s.reads = 1 /\ ~s.readFailed

\* C17 as stated: after one translate(t, s) that succeeded through the
\* upstream with a working cache, a second translate(t, s) is a cache hit:
\* it returns the same text and issues no upstream request.
C17_Original ==
    \A p \in Of("translate") :
        LET s == proc[p]
        IN SecondTranslate(s)
           => /\ s.pc = "done"
              /\ s.outcome = s.last.outcome
              /\ s.calls = 0

\* C17, amended: after one translate(t, s) that got a non-empty text from
\* the upstream with a working cache, a second translate(t, s) is a cache
\* hit: it returns the same text, issues no upstream request and writes
\* nothing.
C17_SecondCallHits ==
    \A p \in Of("translate") :
        LET s == proc[p]
        IN (SecondTranslate(s) /\ s.last.outcome.val.s # "")
           => /\ s.pc = "done"
              /\ s.outcome = s.last.outcome
              /\ s.calls = 0
              /\ s.writes = <<>> /\ s.setArgs = Undefined

C17_Witness ==
    \E p \in Of("translate") :
        LET s == proc[p]
        IN /\ SecondTranslate(s) /\ s.pc = "done" /\ s.calls = 0
           /\ s.arg = [text |-> "hello", type |-> "yoda"]
           /\ s.outcome = Resolved(Str("yoda says hello"))

\* the calls of getPokemonSpecies and of translate
Lookups == Of("species") \cup Of("translate")

\* C18: a getPokemonSpecies or translate call has handed a write to the
\* cache only if an upstream request of that same call had succeeded
\* before, and the only key it writes is its own; a call whose upstream
\* requests have all failed has written nothing, and when it settles the
\* store, its key included, is as it was when the call began.
C18_WriteOnlyAfterFetch ==
    \A p \in Lookups :
        LET s == proc[p]
        IN /\ (s.setArgs # Undefined \/ s.writes # <<>> \/ s.writeFailed)
              => /\ s.fnOk
                 /\ s.calls >= 1
                 /\ s.setArgs # Undefined /\ s.setArgs.key = s.cacheKey
                 /\ \A i \in DOMAIN s.writes : s.writes[i] = s.setArgs
           /\ ~s.fnOk
              => /\ s.setArgs = Undefined /\ s.writes = <<>>
                 /\ s.pc # "idle" => store = s.storeAtCall

C18_Witness ==
    \E p \in Of("translate") :
        LET s == proc[p]
        IN /\ s.pc = "done" /\ s.calls = 1 /\ s.nFailed = 1
           /\ s.thrown = Err("AxiosError", TRUE, 400)
           /\ s.cacheKey \in DOMAIN s.storeAtCall
           /\ store = s.storeAtCall
           /\ \E k \in DOMAIN store : k[1] = "pokemon:species"

\* what a settled lookup's upstream history alone makes of it: the
\* upstream's data or translated text, NotFoundException for a 404, the
\* upstream's error for a species lookup, null for a translation
MissOutcome(s) ==
    IF s.kind = "species"
    THEN IF s.fnOk THEN Resolved(s.fnValue.data)
         ELSE IF s.thrown = Http404 THEN Rejected(NotFoundException)
         ELSE Rejected(s.thrown)
    ELSE IF s.fnOk /\ s.fnValue.data.contents # Undefined
         THEN Resolved(s.fnValue.data.contents.translated)
         ELSE Resolved(Null)

\* C19: a getPokemonSpecies or translate call whose cache read failed
\* goes on as after a miss, and a call that settles after a miss or a
\* failed read settles with what the upstream's answers alone determine,
\* whether the store took its write, failed it, or was never written:
\* the outcome with a store that fails every read and write is the outcome
\* of a miss with a working store.  The only errors a call rejects with are
\* NotFoundException and the upstream's own.
C19_GracefulDegradation ==
    \A p \in Lookups :
        LET s == proc[p]
        IN /\ s.readFailed => (s.got = Null /\ s.calls >= 1)
           /\ (s.pc = "done" /\ s.reads = 1 /\ ~Truthy(s.got))
              => /\ s.outcome = MissOutcome(s)
                 /\ s.calls >= 1
           /\ s.outcome.tag = "rejected"
              => /\ s.kind = "species"
                 /\ s.outcome.val \in HttpErrors \cup {NotFoundException}
                 /\ s.outcome.val # NotFoundException => s.outcome.val = s.thrown

C19_Witness ==
    \E p \in Of("translate") :
        LET s == proc[p]
        IN /\ s.pc = "done" /\ s.readFailed /\ s.writeFailed
           /\ s.cacheKey \in DOMAIN s.storeAtCall
           /\ s.outcome = Resolved(Str("shakespeare says hello"))
           /\ s.last.kind = "species" /\ s.last.fetched /\ ~s.last.stored

\* C20: determineTranslationType(habitat, isLegendary) is YODA exactly when
\* habitat is "cave" or isLegendary is true and SHAKESPEARE otherwise
\* (cave/false -> YODA, forest/true -> YODA, forest/false -> SHAKESPEARE),
\* and the style getTranslatedPokemon hands to translate is the one so
\* determined by the species' habitat and legendary flag, the text being
\* the description.
C20_TranslationType ==
    /\ \A p \in Of("determineTranslationType") :
          LET a == proc[p].arg
          IN proc[p].pc = "done"
             => /\ (proc[p].outcome = Resolved(Str("yoda")))
                       <=> (a.habitat = "cave" \/ a.isLegendary)
                /\ (proc[p].outcome = Resolved(Str("shakespeare")))
                       <=> ~(a.habitat = "cave" \/ a.isLegendary)
                /\ a = [habitat |-> "cave", isLegendary |-> FALSE]
                       => proc[p].outcome = Resolved(Str("yoda"))
                /\ a = [habitat |-> "forest", isLegendary |-> TRUE]
                       => proc[p].outcome = Resolved(Str("yoda"))
                /\ a = [habitat |-> "forest", isLegendary |-> FALSE]
                       => proc[p].outcome = Resolved(Str("shakespeare"))
    /\ \A p \in Of("getTranslatedPokemon") :
          LET s == proc[p]
              d == s.speciesGot.val
          IN /\ (s.translateArgs # Undefined) <=> (s.speciesGot.tag = "resolved")
             /\ s.translateArgs # Undefined
                => /\ s.translateArgs.type =
                         (IF d.is_legendary
                             \/ (d.habitat # Null /\ d.habitat.name = "cave")
                          THEN "yoda" ELSE "shakespeare")
                   /\ s.translateArgs.text = s.locals.description

C20_Witness ==
    \E p \in Of("getTranslatedPokemon") :
        LET s == proc[p]
        IN /\ s.pc = "done" /\ s.speciesGot.tag = "resolved"
           /\ s.speciesGot.val.habitat = [name |-> "forest"]
           /\ s.speciesGot.val.is_legendary
           /\ s.translateArgs.type = "yoda"
           /\ s.translateGot = Resolved(Text(<<"t">>))

\* the habitat the service reports for species data: its habitat's name,
\* "unknown" when it has none
ReportedHabitat(d) ==
    IF d.habitat = Null \/ d.habitat = [name |-> ""] THEN "unknown"
    ELSE d.habitat.name

C22_NoDeduplication ==
    \A p \in Lookups :
        LET s == proc[p]
        IN /\ (s.reads = 1 /\ ~Truthy(s.got)) => s.calls >= 1
           /\ s.fnOk
              => /\ s.pc \in {"cacheSet", "done"}
                 /\ s.pc = "cacheSet" => s.setArgs.key = s.cacheKey
           /\ (s.pc = "done" /\ s.fnOk)
              => /\ s.outcome = MissOutcome(s)
                 /\ (s.kind = "species" \/ s.fnValue.data.contents # Undefined)
                    => /\ s.setArgs.key = s.cacheKey
                       /\ s.writeFailed \/ s.writes = <<s.setArgs>>

C22_Witness ==
    \E p, q \in Of("species") :
        /\ p # q
        /\ proc[p].cacheKey = proc[q].cacheKey
        /\ \A r \in {p, q} :
              LET s == proc[r]
              IN /\ s.pc = "done" /\ s.got = Null /\ ~s.readFailed
                 /\ s.calls = 1 /\ s.fnOk
                 /\ s.writes = <<[key |-> s.cacheKey, value |-> Obj(s.url), ttl |-> 0]>>
                 /\ s.outcome = Resolved(Obj(s.url))

\* the values the upstream holds for the key of a lookup: the species data
\* under the URL of the lowercased name; the translation of the text in
\* the style (or what stands for it in a body without one)
UpstreamValues(kind, arg) ==
    IF kind = "species"
    THEN {Obj(<<"https://pokeapi.co/api/v2", "/pokemon-species/">> \o Lowercase(arg))}
    ELSE {Str(arg.type \o " says " \o arg.text), Str(""), Undefined}

\* the key of a lookup
KeyOf(kind, arg) ==
    IF kind = "species"
    THEN <<"pokemon:species", ":">> \o Lowercase(arg)
    ELSE <<"translation", ":", arg.type, ":", Sha256Hex(arg.text)>>

\* the lookups callers make
AllLookups ==
    {[kind |-> "species", arg |-> n] : n \in Names}
        \cup {[kind |-> "translate", arg |-> r] : r \in TranslateRequests}

\* C23: under every interleaving of two concurrent lookups, each cache
\* entry lies under the key of a lookup and holds a value of the upstream
\* for that very lookup, with ttl 0; lookups of different names or of one
\* text in different styles have different keys; two writes to one key
\* whose upstream answers were the same carry the same value; and a cache
\* hit returns a value of the upstream for the lookup's own name, or text
\* and style.
C23_StoredValueIsOfItsKey ==
    /\ \A k \in DOMAIN store :
          \E l \in AllLookups :
              /\ k = KeyOf(l.kind, l.arg)
              /\ store[k].value \in UpstreamValues(l.kind, l.arg)
              /\ store[k].ttl = 0
    /\ \A l1, l2 \in AllLookups :
          KeyOf(l1.kind, l1.arg) = KeyOf(l2.kind, l2.arg)
             => UpstreamValues(l1.kind, l1.arg) = UpstreamValues(l2.kind, l2.arg)
    /\ \A p, q \in Lookups :
          (/\ proc[p].cacheKey = proc[q].cacheKey
           /\ proc[p].setArgs # Undefined /\ proc[q].setArgs # Undefined
           /\ proc[p].fnValue = proc[q].fnValue)
          => proc[p].setArgs = proc[q].setArgs
    /\ \A p \in Lookups :
          LET s == proc[p]
          IN /\ s.pc # "idle" => s.cacheKey = KeyOf(s.kind, s.arg)
             /\ (s.pc = "done" /\ Truthy(s.got))
                => /\ s.outcome = Resolved(s.got)
                   /\ s.got \in UpstreamValues(s.kind, s.arg)

C23_Witness ==
    \E p, q \in Of("translate") :
        /\ proc[p].arg = [text |-> "hello", type |-> "yoda"]
        /\ proc[q].arg = [text |-> "hello", type |-> "shakespeare"]
        /\ proc[p].pc = "done" /\ proc[p].writes # <<>>
        /\ proc[q].pc = "done" /\ proc[q].writes # <<>>
        /\ store[proc[p].cacheKey].value = Str("yoda says hello")
        /\ store[proc[q].cacheKey].value = Str("shakespeare says hello")

\* C24: NotFound is not negatively cached.  A getPokemonSpecies call that
\* ended in NotFoundException has written nothing and leaves the store as
\* it was when it began.  A lookup of a name that follows one of the same
\* name which ended in NotFoundException, the name having no cache entry,
\* sends an upstream request of its own once its cache read is done, and
\* when the upstream answers 404 again it ends in NotFoundException again.
C24_NoNegativeCaching ==
    \A p \in Of("species") :
        LET s == proc[p]
        IN /\ ((s.calls >= 1 /\ s.nFailed = s.calls /\ s.thrown = Http404)
                  \/ (s.pc = "done" /\ s.outcome = Rejected(NotFoundException)))
              => /\ s.setArgs = Undefined /\ s.writes = <<>> /\ ~s.writeFailed
                 /\ store = s.storeAtCall
           /\ (/\ s.last.kind = "species"
               /\ s.last.outcome = Rejected(NotFoundException)
               /\ Lowercase(s.last.arg) = Lowercase(s.arg)
               /\ s.cacheKey \notin DOMAIN s.storeAtCall
               /\ s.reads = 1)
              => /\ s.calls >= 1
                 /\ s.got = Null
                 /\ (s.nFailed = s.calls /\ s.thrown = Http404)
                    => (s.pc = "done" /\ s.outcome = Rejected(NotFoundException))

C24_Witness ==
    \E p \in Of("species") :
        LET s == proc[p]
        IN /\ s.last.kind = "species" /\ s.last.arg = <<"P", "I">>
           /\ s.last.outcome = Rejected(NotFoundException)
           /\ s.arg = <<"p", "i">> /\ s.pc = "done" /\ ~s.readFailed
           /\ s.calls = 1
           /\ s.outcome = Rejected(NotFoundException)
           /\ store = s.storeAtCall

\* no step removes a cache entry, and every entry is written never to
\* expire
EntriesStay ==
    /\ \A k \in DOMAIN store : store[k].ttl = 0
    /\ \A p \in Lookups : proc[p].setArgs # Undefined => proc[p].setArgs.ttl = 0

NoEntryRemoved == \A k \in DOMAIN store : k \in DOMAIN store'

\* a lookup whose key held an entry when it began and whose cache read the
\* store has answered
ReadOfStoredKey(s) ==
    /\ s.cacheKey \in DOMAIN s.storeAtCall
    /\ s.reads = 1 /\ ~s.readFailed

\* C25 as stated: no operation deletes a cache entry, every cache write
\* uses ttl 0, and once a key holds a value after a successful write every
\* later lookup of that key with a working store returns the cached value
\* without contacting the upstream.
C25_Original ==
    /\ [][NoEntryRemoved]_vars
    /\ [](EntriesStay
          /\ \A p \in Lookups :
                LET s == proc[p]
                IN ReadOfStoredKey(s)
                   => /\ s.pc = "done" /\ s.calls = 0
                      /\ s.outcome = Resolved(s.storeAtCall[s.cacheKey].value))

\* C25, amended: no operation deletes a cache entry, every cache write uses
\* ttl 0, and once a key holds a truthy value (species data, a non-empty
\* translation) every later lookup of that key with a working store
\* returns the cached value without contacting the upstream; a key that
\* holds an empty or undefined translation is looked up as a miss.
C25_NeverInvalidated ==
    /\ [][NoEntryRemoved]_vars
    /\ [](EntriesStay
          /\ \A p \in Lookups :
                LET s == proc[p]
                    held == s.storeAtCall[s.cacheKey].value
                IN ReadOfStoredKey(s)
                   => /\ Truthy(held)
                         => /\ s.pc = "done" /\ s.calls = 0
                            /\ s.outcome = Resolved(held)
                            /\ store = s.storeAtCall
                      /\ ~Truthy(held)
                         => (s.kind = "translate" /\ s.calls >= 1))

C25_Witness ==
    \E p \in Of("translate") :
        LET s == proc[p]
        IN /\ ReadOfStoredKey(s) /\ s.pc = "done" /\ s.calls = 0
           /\ s.outcome = Resolved(Str("shakespeare says hello"))
           /\ \E k \in DOMAIN store : store[k].value.t = "object"

\* the HTTP status of a finished request: 200 for a result, the status of
\* the HttpException thrown, 500 for any other error
StatusOf(s) ==
    IF s.outcome.tag = "resolved" THEN 200
    ELSE IF s.outcome.val = ThrottlerException THEN 429
    ELSE IF s.outcome.val = BadRequestException THEN 400
    ELSE IF s.outcome.val = NotFoundException THEN 404
    ELSE 500

Requests == {p \in Procs : proc[p].route # "none"}

\* PokemonService was not called for the request
ServiceNotInvoked(s) ==
    /\ s.kind = "none" /\ s.logs = <<>>
    /\ s.speciesGot = Pending /\ s.translateGot = Pending

\* the limits of the claim
LimitOf(route) == IF route = "getPokemon" THEN 10 ELSE 5

\* the request names that match ^[a-z0-9-]+$ and have at most 50 characters
WellFormed(name) == name \in {<<"m", "-", "2">>, [i \in 1..50 |-> "a"]}

\* C26: of the requests of one window on a route only the first 10
\* (GET /pokemon/:name), respectively the first 5
\* (GET /pokemon/translated/:name), get past the rate limiter; every later
\* one, the 11th respectively the 6th first, is answered with 429 and
\* PokemonService is not invoked for it.
C26_RateLimit ==
    /\ \A route \in Routes : throttler[route] \in Nat
    /\ \A p \in Requests :
          LET s == proc[p]
          IN /\ s.hit >= 1
             /\ s.hit > LimitOf(s.route)
                => /\ s.pc = "done" /\ StatusOf(s) = 429
                   /\ ServiceNotInvoked(s)
             /\ s.hit <= LimitOf(s.route)
                => /\ s.pc = "done" => StatusOf(s) # 429
                   /\ WellFormed(s.arg) => s.kind = s.route /\ s.logs # <<>>

C26_Witness ==
    \E p \in Requests :
        LET s == proc[p]
        IN /\ s.route = "getTranslatedPokemon" /\ s.hit = 6
           /\ StatusOf(s) = 429 /\ s.arg = <<"m", "-", "2">>
           /\ throttler["getPokemon"] = 11

RECURSIVE FirstEnglish(_)
FirstEnglish(entries) ==
    IF entries = <<>> THEN <<>>
    ELSE IF Head(entries).language.name = "en" THEN <<Head(entries).flavor_text>>
    ELSE FirstEnglish(Tail(entries))

\* a text in which a space stands for every newline and form feed
RECURSIVE Spaced(_)
Spaced(chars) ==
    IF chars = <<>> THEN <<>>
    ELSE <<IF Head(chars) = "\n" \/ Head(chars) = "\f" THEN " " ELSE Head(chars)>>
         \o Spaced(Tail(chars))

ExpectedDescription(d) ==
    LET e == FirstEnglish(d.flavor_text_entries)
    IN IF e = <<>> THEN Text(<<"No description available.">>)
       ELSE Text(Spaced(e[1]))

\* C28: the description getPokemon returns, and the one
\* getTranslatedPokemon has translated and falls back to, is the text of
\* the first flavor-text entry of language "en" with a space for every
\* newline and form feed, and "No description available." when no entry
\* is of language "en".
C28_Description ==
    /\ \A p \in Of("getPokemon") :
          LET s == proc[p]
          IN (s.pc = "done" /\ s.speciesGot.tag = "resolved")
             => /\ s.outcome.tag = "resolved"
                /\ s.outcome.val.description = ExpectedDescription(s.speciesGot.val)
    /\ \A p \in Of("getTranslatedPokemon") :
          LET s == proc[p]
          IN s.speciesGot.tag = "resolved"
             => /\ s.locals.description = ExpectedDescription(s.speciesGot.val)
                /\ s.translateArgs.text = ExpectedDescription(s.speciesGot.val)
                /\ (s.pc = "done" /\ ~Truthy(s.translateGot.val))
                   => s.outcome.val.description = ExpectedDescription(s.speciesGot.val)

C28_Witness ==
    \E p \in Of("getPokemon") :
        LET s == proc[p]
        IN /\ s.pc = "done" /\ s.speciesGot.tag = "resolved"
           /\ Len(s.speciesGot.val.flavor_text_entries) = 3
           /\ s.speciesGot.val.flavor_text_entries[1].language.name = "fr"
           /\ s.outcome.val.description = Text(<<"a", " ", "b", " ", "c">>)

\* a step of a withExponentialBackoff call logs nothing, or logs one
\* warning and starts a delay
WarnsWithDelay ==
    \A p \in Procs :
        (proc[p].kind = "backoff" /\ proc'[p].kind = "backoff")
        => \/ proc'[p].warns = proc[p].warns
           \/ /\ proc'[p].warns = Append(proc[p].warns,
                                         proc'[p].warns[Len(proc'[p].warns)])
              /\ proc[p].pc = "invoke" /\ proc'[p].pc = "sleep"
              /\ proc'[p].delays = Append(proc[p].delays,
                                          proc'[p].warns[Len(proc'[p].warns)].delay)
              /\ proc'[p].timer = proc'[p].warns[Len(proc'[p].warns)].delay

\* C29: with a logger, withExponentialBackoff logs exactly one warning in
\* the step that starts each delay, naming the status of the failure, the
\* delay and the attempt number (i of maxAttempts for the i-th delay), and
\* none otherwise (a settled call of k invocations has logged k - 1);
\* without a logger it logs nothing; invocations, delays and result are
\* the same function of the configuration and of the operation's outcomes
\* with and without a logger.
C29_RetryNotification ==
    /\ [][WarnsWithDelay]_vars
    /\ [](\A p \in Of("backoff") :
            LET s == proc[p]
                n == s.cfg.maxAttempts
            IN /\ ~s.logger => s.warns = <<>>
               /\ s.logger
                  => /\ Len(s.warns) = Len(s.delays)
                     /\ \A i \in 1..Len(s.warns) :
                           /\ s.warns[i].delay = s.delays[i]
                           /\ s.warns[i].attempt = i
                           /\ s.warns[i].of = n
                           /\ s.warns[i].status.t = "number"
                     /\ (s.warns # <<>> /\ s.pc \in {"sleep", "invoke"})
                        => s.warns[Len(s.warns)].status = Num(s.thrown.status)
                     /\ s.pc = "done"
                        => Len(s.warns) = IF s.calls = 0 THEN 0 ELSE s.calls - 1
               /\ \A i \in 1..Len(s.delays) : s.delays[i] = ExpectedDelay(s, i - 1)
               /\ s.pc = "invoke" => s.calls = Len(s.delays) + 1
               /\ s.pc = "done"
                  => /\ s.calls = IF s.fnOk \/ s.nRetryable < s.nFailed
                                  THEN s.nFailed + (IF s.fnOk THEN 1 ELSE 0)
                                  ELSE IF n >= 1 THEN n ELSE 0
                     /\ s.outcome = IF s.fnOk THEN Resolved(s.fnValue)
                                    ELSE IF s.calls = 0 THEN Rejected(Undefined)
                                    ELSE Rejected(s.thrown))

C29_Witness ==
    \E p \in Of("backoff") :
        LET s == proc[p]
        IN /\ s.logger /\ s.pc = "done" /\ s.calls = 3 /\ s.nRetryable = 3
           /\ s.warns = <<[status |-> Num(503), delay |-> 1000, attempt |-> 1, of |-> 3],
                          [status |-> Num(429), delay |-> 2000, attempt |-> 2, of |-> 3]>>
           /\ s.outcome.tag = "rejected"

\* the SHA-256 digests, in hexadecimal, of the texts
Digest(text) ==
    IF text = "hello"
    THEN "2cf24dba5fb0a30e26e83b2ac5b9e29e1b161e5c1fa7425e73043362938b9824"
    ELSE "185f8db32271fe25f561a6fc938b2e264306ec304eda518007d1764826381969"

\* translation:{style}:{sha256-hex(text)}
ExpectedKey(text, type) == <<"translation", ":", type, ":", Digest(text)>>

\* C30: generateCacheKey(text, style) is translation:{style}:{sha256-hex
\* (text)}, the same for equal (style, text) and different for the same
\* text under the other style (and for another text under the same style);
\* translate looks up and writes that key only, so a call that finds the
\* other style's translation of its text in the store is a miss, and a
\* hit returns a translation of its own style.
C30_TranslationCacheKey ==
    /\ \A p \in Of("generateCacheKey") :
          LET s == proc[p]
          IN /\ s.pc = "done"
             /\ s.outcome = Resolved(Text(ExpectedKey(s.arg.text, s.arg.type)))
             /\ \A text \in Texts, type \in TranslationTypes :
                   (s.outcome.val.chars = generateCacheKey(text, type))
                   <=> (text = s.arg.text /\ type = s.arg.type)
    /\ \A p \in Of("translate") :
          LET s == proc[p]
              key == ExpectedKey(s.arg.text, s.arg.type)
          IN /\ s.cacheKey = key
             /\ s.setArgs # Undefined => s.setArgs.key = key
             /\ \A i \in 1..Len(s.writes) : s.writes[i].key = key
             /\ (s.reads = 1 /\ ~s.readFailed /\ key \notin DOMAIN s.storeAtCall)
                => s.got = Null /\ s.calls >= 1
             /\ (s.pc = "done" /\ s.calls = 0 /\ s.outcome.val # Null)
                => /\ s.outcome.tag = "resolved"
                   /\ s.outcome.val = Str(s.arg.type \o " says " \o s.arg.text)
                   /\ s.outcome.val = s.storeAtCall[key].value

C30_Witness ==
    \E p \in Of("translate") :
        LET s == proc[p]
        IN /\ s.arg = [text |-> "hello", type |-> "shakespeare"]
           /\ s.last.kind = "translate" /\ s.last.stored
           /\ s.last.arg = [text |-> "hello", type |-> "yoda"]
           /\ s.last.outcome = Resolved(Str("yoda says hello"))
           /\ ExpectedKey("hello", "yoda") \in DOMAIN s.storeAtCall
           /\ s.cacheKey \notin DOMAIN s.storeAtCall
           /\ s.reads = 1 /\ s.got = Null /\ s.calls = 1 /\ s.pc = "done"
           /\ s.outcome = Resolved(Str("shakespeare says hello"))

\* a lookup that is under way
Running(p) == proc[p].kind \in {"species", "translate"} /\ proc[p].pc # "done"

\* what a lookup has used so far: at most one cache read, three upstream
\* requests with the retry configuration (3, 1000, 10000), none after a
\* hit, and one cache write
WithinBudget(s) ==
    /\ s.reads <= 1
    /\ s.pc \notin {"cacheGet"} => s.reads = 1
    /\ s.calls <= 3
    /\ s.calls >= 1 => s.cfg = [maxAttempts |-> 3, baseDelay |-> 1000, maxDelay |-> 10000]
    /\ (s.reads = 1 /\ ~s.readFailed /\ Truthy(s.got)) => s.calls = 0
    /\ Len(s.delays) <= 2
    /\ Len(s.writes) + (IF s.writeFailed THEN 1 ELSE 0) <= 1
    /\ (s.writes # <<>> \/ s.writeFailed) => s.pc = "done"

\* C31: a getPokemonSpecies or translate call performs exactly one cache
\* read, on a miss at most 3 upstream requests (retry configuration 3,
\* 1000, 10000) and at most one cache write, and it settles in the end
\* when every cache operation and HTTP request settles.
C31_BoundedAndTerminates ==
    /\ [](\A p \in Lookups : WithinBudget(proc[p]))
    /\ \A p \in {1} : Running(p) ~> (proc[p].pc = "done")

C31_Witness ==
    \E p \in Of("translate") :
        LET s == proc[p]
        IN /\ s.pc = "done" /\ s.reads = 1 /\ s.calls = 3 /\ s.fnOk
           /\ s.delays = <<1000, 2000>> /\ Len(s.writes) = 1
           /\ \E k \in DOMAIN s.storeAtCall : s.storeAtCall[k].value.t = "object"

\* C32: when an attempt of withExponentialBackoff failed with a retryable
\* error and a later attempt fails with a non-retryable one, the call has
\* rejected with that non-retryable error: the delays are those after the
\* retryable failures only, nothing is waited for afterwards and the
\* operation is not invoked again (a call never meets a second
\* non-retryable failure).
C32_NonRetryableAfterRetry ==
    \A p \in Of("backoff") :
        LET s == proc[p]
        IN /\ s.nFailed - s.nRetryable <= 1
           /\ (s.nRetryable >= 1 /\ s.nFailed = s.nRetryable + 1 /\ ~s.fnOk
                 /\ ~RetryableError(s.thrown))
              => /\ s.pc = "done"
                 /\ s.outcome = Rejected(s.thrown)
                 /\ s.calls = s.nFailed /\ s.calls <= s.cfg.maxAttempts
                 /\ Len(s.delays) = s.nRetryable
                 /\ s.timer = 0 /\ s.slept = SumSeq(s.delays)

C32_Witness ==
    \E p \in Of("backoff") :
        LET s == proc[p]
        IN /\ s.pc = "done" /\ s.cfg.maxAttempts = 3 /\ s.cfg.baseDelay = 1000
           /\ s.calls = 2 /\ s.nRetryable = 1 /\ s.nFailed = 2
           /\ s.thrown = Err("AxiosError", TRUE, 404)
           /\ s.outcome = Rejected(s.thrown)
           /\ s.delays = <<1000>> /\ s.slept = 1000

\* the upstream answered the POST of a translate with a body that carries
\* no contents.translated text
MalformedBody(s) ==
    /\ s.fnOk
    /\ \/ s.fnValue.data.contents = Undefined
       \/ s.fnValue.data.contents.translated = Undefined

\* C33: when the upstream call of a translate succeeded with a body that
\* carries no contents.translated text, the call resolves with null, does
\* not throw and writes nothing to the cache.
C33_MalformedBodyGivesNull ==
    \A p \in Of("translate") :
        LET s == proc[p]
        IN MalformedBody(s)
           => /\ s.pc = "done"
              /\ s.outcome = Resolved(Null)
              /\ s.setArgs = Undefined /\ s.writes = <<>> /\ ~s.writeFailed
              /\ store = s.storeAtCall

\* a body with contents but no `translated` has been written to the cache
\* as undefined and returned
C33_UndefinedCached ==
    \E p \in Of("translate") :
        LET s == proc[p]
        IN /\ MalformedBody(s) /\ s.fnValue.data.contents # Undefined
           /\ s.pc = "done" /\ s.outcome = Resolved(Undefined)
           /\ s.cacheKey \in DOMAIN store
           /\ store[s.cacheKey] = [value |-> Undefined, ttl |-> 0]
           /\ s.cacheKey \notin DOMAIN s.storeAtCall

\* C34: in a withExponentialBackoff execution with maxAttempts >= 1 and
\* maxDelay >= baseDelay > 0 every delay is at most maxDelay and the
\* delays, and the time waited, sum to at most (maxAttempts - 1) *
\* maxDelay; with the services' configuration (3, 1000, 10000) the
\* execution waits at most 3000 ms in total.
C34_BoundedWaiting ==
    \A p \in Of("backoff") :
        LET s == proc[p]
            c == s.cfg
        IN (c.maxAttempts >= 1 /\ c.maxDelay >= c.baseDelay /\ c.baseDelay > 0)
           => /\ \A i \in 1..Len(s.delays) : s.delays[i] <= c.maxDelay
              /\ Len(s.delays) <= c.maxAttempts - 1
              /\ SumSeq(s.delays) <= (c.maxAttempts - 1) * c.maxDelay
              /\ s.slept <= SumSeq(s.delays)
              /\ c = [maxAttempts |-> 3, baseDelay |-> 1000, maxDelay |-> 10000]
                 => SumSeq(s.delays) <= 3000 /\ s.slept <= 3000

C34_Witness ==
    \E p \in Of("backoff") :
        LET s == proc[p]
        IN /\ s.pc = "done"
           /\ s.cfg = [maxAttempts |-> 4, baseDelay |-> 1, maxDelay |-> 3]
           /\ s.delays = <<1, 2, 3>> /\ s.slept = 6

\* the configuration each concurrent execution runs with: what it passed,
\* the defaults for the rest
OwnSettings(p) ==
    IF p = 1 THEN [maxAttempts |-> 3, baseDelay |-> 1, maxDelay |-> 10000]
    ELSE [maxAttempts |-> 2, baseDelay |-> 1000, maxDelay |-> 3]

\* C35: whatever the other caller does meanwhile, an execution of
\* withExponentialBackoff counts its own attempts, waits its own delays
\* and settles with its own operation's result or last error after at most
\* its own maxAttempts invocations; a CacheWrapperService.get resolves
\* with what the store answered its read, a set with undefined after
\* handing over its own entry; the executions write nothing but what a
\* set was called with.
C35_NoSharedState ==
    /\ \A p \in Of("backoff") :
          LET s == proc[p]
              n == OwnSettings(p).maxAttempts
          IN /\ s.cfg = OwnSettings(p)
             /\ s.calls <= n
             /\ s.pc \in {"invoke", "sleep"} => s.attempt = s.calls - 1
             /\ Len(s.delays) = IF s.nRetryable <= n - 1 THEN s.nRetryable ELSE n - 1
             /\ \A i \in 1..Len(s.delays) :
                   s.delays[i] = Min(OwnSettings(p).baseDelay * Pow2(i - 1),
                                     OwnSettings(p).maxDelay)
             /\ s.pc = "sleep" => s.timer <= s.delays[Len(s.delays)]
             /\ s.pc = "done"
                => /\ s.calls = IF s.fnOk \/ s.nRetryable < s.nFailed
                                THEN s.nFailed + (IF s.fnOk THEN 1 ELSE 0)
                                ELSE n
                   /\ s.outcome = IF s.fnOk THEN Resolved(s.fnValue)
                                  ELSE Rejected(s.thrown)
                   /\ s.slept = SumSeq(s.delays)
             /\ s.reads = 0 /\ s.writes = <<>> /\ s.setArgs = Undefined
    /\ \A p \in Of("get") :
          LET s == proc[p]
          IN s.pc = "done"
             => s.outcome = Resolved(IF s.readFailed \/ s.storeGot \in {Undefined, Null}
                                     THEN Null ELSE s.storeGot)
    /\ \A p \in Of("set") :
          LET s == proc[p]
          IN s.pc = "done"
             => /\ s.outcome = Resolved(Undefined)
                /\ s.writeFailed \/ s.writes = <<s.arg>>
    /\ \A k \in DOMAIN store :
          \E p \in Of("set") :
              proc[p].writes = <<[key |-> k, value |-> store[k].value,
                                  ttl |-> store[k].ttl]>>

C35_Witness ==
    /\ proc[1].kind = "backoff" /\ proc[2].kind = "backoff"
    /\ proc[1].pc = "done" /\ proc[2].pc = "sleep"
    /\ proc[1].calls = 3 /\ proc[1].delays = <<1, 2>>
    /\ proc[1].outcome = Rejected(Err("AxiosError", TRUE, 503))
    /\ proc[2].calls = 1 /\ proc[2].delays = <<3>> /\ proc[2].timer = 0
    /\ proc[2].thrown = Err("AxiosError", TRUE, 429)

\* the default of each field of the config
DefaultOf(f) ==
    CASE f = "maxAttempts" -> 3
      [] f = "baseDelay" -> 1000
      [] f = "maxDelay" -> 10000

\* C36: withExponentialBackoff runs with the supplied value of every field
\* its config holds and with the default (3, 1000, 10000) of every field
\* it omits; a call with an empty config invokes the operation at most 3
\* times, and one with {maxAttempts: 3, baseDelay: 1000} waits 1000 and
\* then 2000 after two retryable failures.
C36_ConfigDefaults ==
    \A p \in Of("backoff") :
        LET s == proc[p]
            config == s.arg
        IN /\ DOMAIN s.cfg = {"maxAttempts", "baseDelay", "maxDelay"}
           /\ \A f \in DOMAIN s.cfg :
                 s.cfg[f] = IF f \in DOMAIN config THEN config[f] ELSE DefaultOf(f)
           /\ DOMAIN config = {}
              => /\ s.calls <= 3
                 /\ (s.pc = "done" /\ ~s.fnOk /\ s.nRetryable = s.nFailed) => s.calls = 3
                 /\ s.nRetryable >= 2 => SubSeq(s.delays, 1, 2) = <<1000, 2000>>
           /\ (config = [maxAttempts |-> 3, baseDelay |-> 1000] /\ s.nRetryable >= 2)
              => s.delays = <<1000, 2000>>
           /\ (config = [maxAttempts |-> 4, baseDelay |-> 1] /\ s.nRetryable >= 3)
              => s.delays = <<1, 2, 4>>

C36_Witness ==
    \E p \in Of("backoff") :
        LET s == proc[p]
        IN /\ s.arg = [maxAttempts |-> 3, baseDelay |-> 1000]
           /\ s.pc = "done" /\ s.calls = 3 /\ s.nRetryable = 2 /\ s.fnOk
           /\ s.delays = <<1000, 2000>>
           /\ s.outcome = Resolved(Str("success"))

\* translate has been invoked by the service call
TranslateInvoked(s) == s.translateArgs # Undefined \/ s.translateGot # Pending

\* a step of a service call invokes translate only when its species lookup
\* resolves, and leaves the arguments of an invoked translate as they are
TranslateInvokedOnce ==
    \A p \in Procs :
        (proc[p].kind = proc'[p].kind /\ proc[p].pc # "done")
        => /\ (~TranslateInvoked(proc[p]) /\ TranslateInvoked(proc'[p]))
              => /\ proc[p].kind = "getTranslatedPokemon"
                 /\ proc[p].pc = "awaitSpecies" /\ proc'[p].pc = "awaitTranslate"
                 /\ proc'[p].speciesGot.tag = "resolved"
           /\ TranslateInvoked(proc[p])
              => /\ proc'[p].translateArgs = proc[p].translateArgs
                 /\ proc[p].pc = "awaitTranslate" /\ proc'[p].pc = "done"

\* C37: getTranslatedPokemon invokes translate at most once and only after
\* its species lookup has resolved; when the species lookup rejects, with
\* NotFound or any other error, the call rejects with that same error and
\* translate is never invoked; getPokemon never invokes translate.
C37_ServiceOrder ==
    /\ [][TranslateInvokedOnce]_vars
    /\ [](/\ \A p \in Of("getTranslatedPokemon") :
               LET s == proc[p]
               IN /\ TranslateInvoked(s) => s.speciesGot.tag = "resolved"
                  /\ s.pc = "awaitTranslate"
                     => s.translateArgs # Undefined /\ s.translateGot = Pending
                  /\ s.speciesGot.tag = "rejected"
                     => /\ s.pc = "done"
                        /\ s.outcome = Rejected(s.speciesGot.val)
                        /\ ~TranslateInvoked(s)
          /\ \A p \in Of("getPokemon") :
               LET s == proc[p]
               IN /\ ~TranslateInvoked(s) /\ s.pc # "awaitTranslate"
                  /\ s.speciesGot.tag = "rejected"
                     => s.pc = "done" /\ s.outcome = Rejected(s.speciesGot.val))

C37_Witness ==
    \E p \in Of("getTranslatedPokemon") :
        LET s == proc[p]
        IN /\ s.pc = "done" /\ s.speciesGot = Rejected(NotFoundException)
           /\ s.outcome = Rejected(NotFoundException)
           /\ s.translateArgs = Undefined /\ s.translateGot = Pending

\* an error that is not an AxiosError and carries response.status 429 or
\* 5xx
ForeignRetryableStatus(e) ==
    /\ e.t = "error" /\ e.type # "AxiosError"
    /\ e.hasResponse /\ (e.status = 429 \/ e.status \in 500..599)

\* C38: when an invocation of the operation fails with an error that is
\* not an AxiosError, even one carrying response.status 429 or 5xx,
\* withExponentialBackoff has rejected with that error: no delay follows
\* the failure and the operation is not invoked again; as the first
\* failure, the operation was invoked once and nothing was waited for.
C38_ForeignErrorNotRetried ==
    \A p \in Of("backoff") :
        LET s == proc[p]
        IN (s.nFailed >= 1 /\ ~s.fnOk /\ s.thrown.type # "AxiosError")
           => /\ s.pc = "done"
              /\ s.outcome = Rejected(s.thrown)
              /\ s.nRetryable = s.nFailed - 1
              /\ s.calls = s.nFailed
              /\ Len(s.delays) = s.nFailed - 1
              /\ s.slept = SumSeq(s.delays)
              /\ s.nFailed = 1 => s.calls = 1 /\ s.delays = <<>> /\ s.slept = 0

C38_Witness ==
    \E p \in Of("backoff") :
        LET s == proc[p]
        IN /\ s.pc = "done" /\ s.cfg.maxAttempts = 3
           /\ s.thrown = Err("Error", TRUE, 503) /\ ForeignRetryableStatus(s.thrown)
           /\ s.calls = 1 /\ s.delays = <<>> /\ s.slept = 0
           /\ s.outcome = Rejected(s.thrown)

\* C39: an empty translation counts as none at both levels.  When
\* translate resolved the service's call with null or with the empty
\* string, getTranslatedPokemon returns the standard description, and the
\* description it returns is never empty when the standard one is not; a
\* translate whose cache read returned the empty string stored under its
\* key treats it as a miss and sends a request to the upstream.
C39_EmptyTranslationIsAbsent ==
    /\ \A p \in Of("getTranslatedPokemon") :
          LET s == proc[p]
          IN (s.pc = "done" /\ s.translateGot.tag = "resolved")
             => /\ s.outcome.tag = "resolved"
                /\ s.translateGot.val \in {Null, Text(<<>>)}
                   => s.outcome.val.description = ExpectedDescription(s.speciesGot.val)
                /\ ExpectedDescription(s.speciesGot.val).chars # <<>>
                   => /\ s.outcome.val.description.t = "text"
                      /\ s.outcome.val.description.chars # <<>>
    /\ \A p \in Of("translate") :
          LET s == proc[p]
          IN (s.reads = 1 /\ ~s.readFailed /\ s.storeGot = Str(""))
             => /\ s.got = Str("")
                /\ s.calls >= 1
                /\ s.pc = "done" => s.outcome # Resolved(Str("")) \/ s.fnOk

C39_Witness ==
    \E p \in Of("translate") :
        LET s == proc[p]
        IN /\ s.cacheKey \in DOMAIN s.storeAtCall
           /\ s.storeAtCall[s.cacheKey] = [value |-> Str(""), ttl |-> 0]
           /\ s.reads = 1 /\ s.storeGot = Str("")
           /\ s.calls = 1 /\ s.fnOk /\ s.pc = "done"
           /\ s.outcome = Resolved(Str("yoda says hello"))
           /\ store[s.cacheKey].value = Str("yoda says hello")

\* C40: a withExponentialBackoff call whose maxAttempts is 0 or negative
\* has settled at once: the operation was never invoked, no delay was
\* performed, nothing was logged, and the call rejects with undefined.
C40_NoAttempts ==
    \A p \in Of("backoff") :
        LET s == proc[p]
        IN s.cfg.maxAttempts <= 0
           => /\ s.pc = "done"
              /\ s.outcome = Rejected(Undefined)
              /\ s.calls = 0 /\ s.nFailed = 0 /\ ~s.fnOk
              /\ s.delays = <<>> /\ s.slept = 0 /\ s.warns = <<>>

C40_Witness ==
    \E p \in Of("backoff") :
        LET s == proc[p]
        IN /\ s.arg = [maxAttempts |-> -1, baseDelay |-> 1000]
           /\ s.cfg.maxAttempts = -1 /\ s.logger
           /\ s.pc = "done" /\ s.calls = 0
           /\ s.outcome = Rejected(Undefined)

====
